---------------------------- MODULE Spec2Model ----------------------------
(***************************************************************************)
(* A model of govee2mqtt's BLE packet codec (src/src/ble_working_old.rs):  *)
(* the 20-byte frame primitive, the fixed-layout packet codecs generated   *)
(* by the packet! macro, the PacketManager registry with its per-SKU codec *)
(* cache, the lazily fetched model-specific parameter catalog and the      *)
(* scene-code segmentation encoder.                                        *)
(*                                                                         *)
(* Bytes are naturals in 0..255, byte strings are sequences of bytes, SKU  *)
(* strings and type ids are TLA+ strings, hex and base64 text is a         *)
(* sequence of one-character strings.                                      *)
(***************************************************************************)
EXTENDS Integers, Sequences, FiniteSets, TLC

(***************************************************************************)
(* Bounds of the model.                                                    *)
(***************************************************************************)
\* Number of concurrent callers in the concurrent workload.
NumThreads == 2
\* Calls the callers of the concurrent workload make in one process run.
MaxCalls == 3
\* Cap of the counters that count catalog fetches and per-SKU map builds.
MaxCount == 2
\* Longest payload handed to with_bytes / finish (one more than fits).
MaxPayloadLen == 20
\* Callers of resolve_device_for_control, and the calls they make in all.
NumCallers == 2
MaxControls == 2
\* Calls of device_power_on in one run.
MaxPolls == 1
\* Longest scene list handed to the scene-name functions.
MaxScenes == 3

(***************************************************************************)
(* Program constants.                                                      *)
(***************************************************************************)
\* poll_lan_api's deadline, Duration::from_secs(5), in units of its
\* Duration::from_millis(100) sleep.
DeadlineTicks == 50
\* data_to_checksum.resize(19, 0); calculate_checksum takes 19 bytes.
FramePayloadLen == 19

(***************************************************************************)
(* Byte helpers.                                                           *)
(***************************************************************************)
RECURSIVE BitXor(_, _)
\* The ^ operator on u8.
BitXor(a, b) ==
    IF a = 0 THEN b
    ELSE IF b = 0 THEN a
    ELSE ((a + b) % 2) + 2 * BitXor(a \div 2, b \div 2)

RECURSIVE FoldXor(_, _, _)
\* fold(0, |acc, &x| acc ^ x) over data[1..n], starting from acc.
FoldXor(data, n, acc) ==
    IF n = 0 THEN acc ELSE BitXor(FoldXor(data, n - 1, acc), data[n])

Min2(a, b) == IF a <= b THEN a ELSE b

\* Vec::resize(n, 0): truncate to n, or pad with zeros up to n.
Resize(data, n) ==
    [i \in 1..n |-> IF i <= Len(data) THEN data[i] ELSE 0]

\* data.iter().take(19).fold(0, |acc, &x| acc ^ x)
calculate_checksum(data) ==
    FoldXor(data, Min2(Len(data), FramePayloadLen), 0)

\* finish with the checksum byte left at zero (a faulty variant of finish).
finish_no_checksum(data) ==
    Append(Resize(data, FramePayloadLen), 0)

\* fn finish(data: Vec<u8>) -> Vec<u8>
finish(data) ==
    LET data_to_checksum == Resize(data, FramePayloadLen)
    IN  Append(data_to_checksum, calculate_checksum(data_to_checksum))

btoi(on) == IF on THEN 1 ELSE 0
itob(i) == i # 0

(***************************************************************************)
(* Typed commands.  A command value is a record whose field "type" is the  *)
(* struct's type id and whose other fields are the struct's fields; a u8   *)
(* field is a byte, a bool field a BOOLEAN, TargetHumidity the wrapped u8. *)
(***************************************************************************)
\* A literal byte of a packet! body.
Lit(b) == [lit |-> TRUE, byte |-> b, name |-> "", ty |-> ""]
\* A named field of a packet! body, with the field's Rust type.
Fld(n, t) == [lit |-> FALSE, byte |-> 0, name |-> n, ty |-> t]

\* $struct::default()
DefaultValue(type) ==
    CASE type = "SetHumidifierMode" ->
            [type |-> type, mode |-> 0, param |-> 0]
      [] type = "NotifyHumidifierMode" ->
            [type |-> type, mode |-> 0, param |-> 0]
      [] type = "HumidifierAutoMode" ->
            [type |-> type, target_humidity |-> 0]
      [] type = "NotifyHumidifierNightlightParams" ->
            [type |-> type, on |-> FALSE, r |-> 0, g |-> 0, b |-> 0, brightness |-> 0]
      [] type = "SetHumidifierNightlightParams" ->
            [type |-> type, on |-> FALSE, r |-> 0, g |-> 0, b |-> 0, brightness |-> 0]
      [] type = "SetDevicePower" ->
            [type |-> type, on |-> FALSE]

\* encode_param for bool pushing the raw truth value 0xff / 0 (a faulty variant).
encode_param_ff(ty, v) ==
    IF ty = "bool" THEN <<IF v THEN 255 ELSE 0>> ELSE <<v>>

\* DecodePacketParam::encode_param for u8, bool and TargetHumidity.
encode_param(ty, v) ==
    IF ty = "bool" THEN <<btoi(v)>> ELSE <<v>>

\* The value a field takes from the byte decode_param reads.
decode_param(ty, byte) ==
    IF ty = "bool" THEN itob(byte) ELSE byte

\* TargetHumidity::from_percent(percent: u8) -> Self { Self(percent + 128) }:
\* the values the call can end with.  When the sum passes 255 a build with
\* overflow checks panics and a build without them wraps.
from_percent(percent) ==
    IF percent + 128 <= 255
    THEN {[panic |-> FALSE, inner |-> percent + 128]}
    ELSE {[panic |-> TRUE, inner |-> 0],
          [panic |-> FALSE, inner |-> (percent + 128) % 256]}

\* TargetHumidity::as_percent(&self) -> u8 { self.0 & 0x7f }
as_percent(inner) == inner % 128

RECURSIVE encode_body(_, _, _)
\* macro encode_body!: body elements k.. of the layout appended in order.
encode_body(body, input, k) ==
    IF k > Len(body) THEN <<>>
    ELSE LET e == body[k]
         IN  (IF e.lit THEN <<e.byte>> ELSE encode_param(e.ty, input[e.name]))
                \o encode_body(body, input, k + 1)

\* The end rule of decode_body! without the ensure!: any padding passes (a
\* faulty variant of AllZero).
AllZero_unchecked(data) == TRUE

\* while !data.is_empty() { ensure!(data[0] == 0); data = &data[1..]; }
AllZero(data) == \A i \in 1..Len(data) : data[i] = 0

DecodeErr(why) == [ok |-> FALSE, err |-> why, value |-> [type |-> ""]]

RECURSIVE decode_body(_, _, _, _)
\* macro decode_body!: elements k.. of the layout read from data into value.
decode_body(body, value, data, k) ==
    IF k > Len(body)
    THEN IF AllZero(data)
         THEN [ok |-> TRUE, err |-> "", value |-> value]
         ELSE DecodeErr("TrailingNonZeroPadding")
    ELSE LET e == body[k]
         IN  IF e.lit
             THEN IF Len(data) > 0 /\ data[1] = e.byte
                  THEN decode_body(body, value, Tail(data), k + 1)
                  ELSE DecodeErr("UnexpectedLiteral")
             ELSE IF Len(data) = 0
                  THEN DecodeErr("EndOfData")
                  ELSE decode_body(body,
                                   [value EXCEPT ![e.name] = decode_param(e.ty, data[1])],
                                   Tail(data), k + 1)

(***************************************************************************)
(* The registry: PacketManager::new pushes these codecs in this order.     *)
(***************************************************************************)
Packet(skus, struct, variant, body) ==
    [kind |-> "packet", supported_skus |-> skus, type_id |-> struct,
     variant |-> variant, body |-> body]

\* The registrations with the NotifyHumidifierMode layout lacking its third
\* literal, aa 05 mode param, which the frames aa 05 03 .. fit too (a faulty
\* variant of all_codecs).
all_codecs_overlapping ==
    << Packet(<<"H7160">>, "SetHumidifierMode", "SetHumidifierMode",
              <<Lit(51), Lit(5), Fld("mode", "u8"), Fld("param", "u8")>>),
       Packet(<<"H7160">>, "NotifyHumidifierMode", "NotifyHumidifierMode",
              <<Lit(170), Lit(5), Fld("mode", "u8"), Fld("param", "u8")>>),
       Packet(<<"H7160">>, "HumidifierAutoMode", "NotifyHumidifierAutoMode",
              <<Lit(170), Lit(5), Lit(3), Fld("target_humidity", "TargetHumidity")>>),
       Packet(<<"H7160">>, "NotifyHumidifierNightlightParams", "NotifyHumidifierNightlight",
              <<Lit(170), Lit(27), Fld("on", "bool"), Fld("brightness", "u8"),
                Fld("r", "u8"), Fld("g", "u8"), Fld("b", "u8")>>),
       Packet(<<"H7160">>, "SetHumidifierNightlightParams", "SetHumidifierNightlight",
              <<Lit(51), Lit(27), Fld("on", "bool"), Fld("brightness", "u8"),
                Fld("r", "u8"), Fld("g", "u8"), Fld("b", "u8")>>),
       [kind |-> "scene", supported_skus |-> <<"*">>, type_id |-> "SetSceneCode",
        variant |-> "SetSceneCode", body |-> <<>>],
       Packet(<<"Generic:Light", "*">>, "SetDevicePower", "SetDevicePower",
              <<Lit(51), Lit(1), Fld("on", "bool")>>) >>

all_codecs ==
    << Packet(<<"H7160">>, "SetHumidifierMode", "SetHumidifierMode",
              <<Lit(51), Lit(5), Fld("mode", "u8"), Fld("param", "u8")>>),
       Packet(<<"H7160">>, "NotifyHumidifierMode", "NotifyHumidifierMode",
              <<Lit(170), Lit(5), Lit(0), Fld("mode", "u8"), Fld("param", "u8")>>),
       Packet(<<"H7160">>, "HumidifierAutoMode", "NotifyHumidifierAutoMode",
              <<Lit(170), Lit(5), Lit(3), Fld("target_humidity", "TargetHumidity")>>),
       Packet(<<"H7160">>, "NotifyHumidifierNightlightParams", "NotifyHumidifierNightlight",
              <<Lit(170), Lit(27), Fld("on", "bool"), Fld("brightness", "u8"),
                Fld("r", "u8"), Fld("g", "u8"), Fld("b", "u8")>>),
       Packet(<<"H7160">>, "SetHumidifierNightlightParams", "SetHumidifierNightlight",
              <<Lit(51), Lit(27), Fld("on", "bool"), Fld("brightness", "u8"),
                Fld("r", "u8"), Fld("g", "u8"), Fld("b", "u8")>>),
       [kind |-> "scene", supported_skus |-> <<"*">>, type_id |-> "SetSceneCode",
        variant |-> "SetSceneCode", body |-> <<>>],
       Packet(<<"Generic:Light", "*">>, "SetDevicePower", "SetDevicePower",
              <<Lit(51), Lit(1), Fld("on", "bool")>>) >>

\* A SKU test that knows no wildcard (a faulty variant of SupportsSku).
SupportsSku_literal(codec, sku) ==
    \E i \in 1..Len(codec.supported_skus) : codec.supported_skus[i] = sku

\* codec.supported_skus.iter().any(|s| *s == sku || *s == "*")
SupportsSku(codec, sku) ==
    \E i \in 1..Len(codec.supported_skus) :
        codec.supported_skus[i] = sku \/ codec.supported_skus[i] = "*"

\* An insert that keeps the entry a key already has (a faulty variant of MapInsert).
MapInsert_keep_first(map, key, val) ==
    [k \in DOMAIN map \cup {key} |-> IF k \in DOMAIN map THEN map[k] ELSE val]

\* HashMap::insert: the entry for key is set, a previous one is replaced.
MapInsert(map, key, val) ==
    [k \in DOMAIN map \cup {key} |-> IF k = key THEN val ELSE map[k]]

EmptyMap == [k \in {} |-> 0]

RECURSIVE BuildMap(_, _, _)
\* The or_insert_with closure of map_for_sku run over codecs[1..n]: the map
\* from type id to the index (in codecs) of the codec chosen for it.
BuildMap(codecs, sku, n) ==
    IF n = 0 THEN EmptyMap
    ELSE LET map == BuildMap(codecs, sku, n - 1)
         IN  IF SupportsSku(codecs[n], sku)
             THEN MapInsert(map, codecs[n].type_id, n)
             ELSE map

(***************************************************************************)
(* Text: hex strings, base64 strings and u8::from_str_radix.  A string is  *)
(* a sequence of one-character strings.                                    *)
(***************************************************************************)
HexLower == <<"0", "1", "2", "3", "4", "5", "6", "7", "8", "9",
              "a", "b", "c", "d", "e", "f">>
HexUpper == <<"0", "1", "2", "3", "4", "5", "6", "7", "8", "9",
              "A", "B", "C", "D", "E", "F">>

IsHexDigit(c) == \E i \in 1..16 : HexLower[i] = c \/ HexUpper[i] = c

\* The value of a hex digit, either case.
HexVal(c) == (CHOOSE i \in 1..16 : HexLower[i] = c \/ HexUpper[i] = c) - 1

TextErr(why) == [ok |-> FALSE, err |-> why, bytes |-> <<>>]
TextOk(bytes) == [ok |-> TRUE, err |-> "", bytes |-> bytes]

\* hex::decode: an odd length or a character that is no hex digit fails.
hex_decode(s) ==
    IF Len(s) % 2 # 0 THEN TextErr("HexDecodeError")
    ELSE IF \E i \in 1..Len(s) : ~IsHexDigit(s[i]) THEN TextErr("HexDecodeError")
    ELSE TextOk([j \in 1..(Len(s) \div 2) |->
                    16 * HexVal(s[2 * j - 1]) + HexVal(s[2 * j])])

\* fn hex_string_to_bytes(s: &str) -> anyhow::Result<Vec<u8>>
hex_string_to_bytes(s) ==
    IF Len(s) = 0 THEN TextOk(<<>>) ELSE hex_decode(s)

\* fn bytes_to_hex_string(bytes: &[u8]) -> String  (hex::encode: lower case)
bytes_to_hex_string(bytes) ==
    [i \in 1..(2 * Len(bytes)) |->
        IF i % 2 = 1 THEN HexLower[(bytes[(i + 1) \div 2] \div 16) + 1]
                     ELSE HexLower[(bytes[i \div 2] % 16) + 1]]

\* str::starts_with and slice::starts_with.
starts_with(s, prefix) ==
    Len(prefix) <= Len(s) /\ SubSeq(s, 1, Len(prefix)) = prefix

RECURSIVE RadixValue(_, _)
\* The number the hex digits s[1..n] denote.
RadixValue(s, n) ==
    IF n = 0 THEN 0 ELSE 16 * RadixValue(s, n - 1) + HexVal(s[n])

\* u8::from_str_radix(s, 16): an optional '+', then one or more hex digits
\* whose value fits a u8.
u8_from_str_radix(s) ==
    LET digits == IF Len(s) > 0 /\ s[1] = "+" THEN Tail(s) ELSE s
    IN  IF Len(s) = 0 \/ Len(digits) = 0 THEN [ok |-> FALSE, value |-> 0]
        ELSE IF \E i \in 1..Len(digits) : ~IsHexDigit(digits[i])
        THEN [ok |-> FALSE, value |-> 0]
        ELSE IF \E n \in 1..Len(digits) : RadixValue(digits, n) > 255
        THEN [ok |-> FALSE, value |-> 0]
        ELSE [ok |-> TRUE, value |-> RadixValue(digits, Len(digits))]

B64Alphabet ==
    <<"A", "B", "C", "D", "E", "F", "G", "H", "I", "J", "K", "L", "M",
      "N", "O", "P", "Q", "R", "S", "T", "U", "V", "W", "X", "Y", "Z",
      "a", "b", "c", "d", "e", "f", "g", "h", "i", "j", "k", "l", "m",
      "n", "o", "p", "q", "r", "s", "t", "u", "v", "w", "x", "y", "z",
      "0", "1", "2", "3", "4", "5", "6", "7", "8", "9", "+", "/">>

IsB64Char(c) == \E i \in 1..64 : B64Alphabet[i] = c

B64Val(c) == (CHOOSE i \in 1..64 : B64Alphabet[i] = c) - 1

\* data_encoding::BASE64.decode: padded, strict.  The length is a multiple
\* of 4, the last block may end in one or two '=', every other character is
\* of the alphabet and the bits a padded block leaves unused are zero.
base64_decode(s) ==
    LET n == Len(s)
        pad == IF n >= 2 /\ s[n] = "=" /\ s[n - 1] = "=" THEN 2
               ELSE IF n >= 1 /\ s[n] = "=" THEN 1 ELSE 0
        v(i) == B64Val(s[i])
    IN  IF n % 4 # 0 THEN TextErr("Base64DecodeError")
        ELSE IF \E i \in 1..(n - pad) : ~IsB64Char(s[i]) THEN TextErr("Base64DecodeError")
        ELSE IF pad = 1 /\ v(n - 1) % 4 # 0 THEN TextErr("Base64DecodeError")
        ELSE IF pad = 2 /\ v(n - 2) % 16 # 0 THEN TextErr("Base64DecodeError")
        ELSE TextOk([j \in 1..((n \div 4) * 3 - pad) |->
                LET blk == 4 * ((j - 1) \div 3)
                    k == (j - 1) % 3
                IN  CASE k = 0 -> 4 * v(blk + 1) + (v(blk + 2) \div 16)
                      [] k = 1 -> 16 * (v(blk + 2) % 16) + (v(blk + 3) \div 4)
                      [] k = 2 -> 64 * (v(blk + 3) % 4) + v(blk + 4)])

\* data_encoding::BASE64.encode, padded.
base64_encode(bytes) ==
    LET n == Len(bytes)
        b(i) == IF i <= n THEN bytes[i] ELSE 0
        groups == (n + 2) \div 3
    IN  [i \in 1..(4 * groups) |->
            LET g == 3 * ((i - 1) \div 4)
                k == (i - 1) % 4
            IN  CASE k = 0 -> B64Alphabet[(b(g + 1) \div 4) + 1]
                  [] k = 1 -> B64Alphabet[16 * (b(g + 1) % 4) + (b(g + 2) \div 16) + 1]
                  [] k = 2 -> IF g + 2 > n THEN "="
                              ELSE B64Alphabet[4 * (b(g + 2) % 16) + (b(g + 3) \div 64) + 1]
                  [] k = 3 -> IF g + 3 > n THEN "="
                              ELSE B64Alphabet[(b(g + 3) % 64) + 1]]

RECURSIVE chunks(_, _)
\* slice::chunks(n): consecutive pieces of n elements, the last one shorter
\* when the length is no multiple of n.
chunks(bytes, n) ==
    IF Len(bytes) = 0 THEN <<>>
    ELSE <<SubSeq(bytes, 1, Min2(n, Len(bytes)))>>
            \o chunks(SubSeq(bytes, Min2(n, Len(bytes)) + 1, Len(bytes)), n)

\* Base64HexBytes::base64: one padded base64 string per chunk of 20 bytes.
base64(bytes) ==
    LET pieces == chunks(bytes, FramePayloadLen + 1)
    IN  [i \in 1..Len(pieces) |-> base64_encode(pieces[i])]

(***************************************************************************)
(* The model-specific parameter catalog and the scene encoder.             *)
(***************************************************************************)
\* impl Default for TypeEntry
DefaultTypeEntry ==
    [type_entry |-> 0, hex_prefix_remove |-> <<>>, hex_prefix_add |-> <<>>,
     normal_command_suffix |-> <<>>]

\* The Err and Ok values of anyhow::Result<ModelSpecificParametersCollection>.
ParamsErr == [ok |-> FALSE, params |-> <<>>]
ParamsOk(collection) == [ok |-> TRUE, params |-> collection]

Contains(seq, x) == \E i \in 1..Len(seq) : seq[i] = x

\* Iterator::find over a sequence, given for each element whether the
\* predicate holds of it: the index of the first that satisfies it, or 0.
FindFirst(holds) ==
    IF \E i \in 1..Len(holds) : holds[i]
    THEN CHOOSE i \in 1..Len(holds) : holds[i] /\ \A j \in 1..(i - 1) : ~holds[j]
    ELSE 0

NoParams == [models |-> <<>>, hex_multi_prefix |-> <<>>, on_command |-> FALSE,
             type_entries |-> <<>>]

\* find_params_for_sku that takes the "null" entry before an exact match
\* (a faulty variant).
find_params_null_first(loaded, sku) ==
    IF ~loaded.ok
    THEN [ok |-> FALSE, err |-> "ParameterCatalogUnavailable", entry |-> NoParams]
    ELSE LET HasSku(p) == Contains(p.models, sku)
             HasNull(p) == Contains(p.models, "null")
             exact == FindFirst([i \in 1..Len(loaded.params) |-> HasSku(loaded.params[i])])
             fallback == FindFirst([i \in 1..Len(loaded.params) |-> HasNull(loaded.params[i])])
         IN  IF fallback # 0
             THEN [ok |-> TRUE, err |-> "", entry |-> loaded.params[fallback]]
             ELSE IF exact # 0
             THEN [ok |-> TRUE, err |-> "", entry |-> loaded.params[exact]]
             ELSE [ok |-> FALSE, err |-> "UnknownSku", entry |-> NoParams]

\* fn find_params_for_sku(sku: &str), reading the value MODEL_SPECIFIC_PARAMS
\* holds once forced.
find_params_for_sku(loaded, sku) ==
    IF ~loaded.ok
    THEN [ok |-> FALSE, err |-> "ParameterCatalogUnavailable", entry |-> NoParams]
    ELSE LET HasSku(p) == Contains(p.models, sku)
             HasNull(p) == Contains(p.models, "null")
             exact == FindFirst([i \in 1..Len(loaded.params) |-> HasSku(loaded.params[i])])
             fallback == FindFirst([i \in 1..Len(loaded.params) |-> HasNull(loaded.params[i])])
         IN  IF exact # 0
             THEN [ok |-> TRUE, err |-> "", entry |-> loaded.params[exact]]
             ELSE IF fallback # 0
             THEN [ok |-> TRUE, err |-> "", entry |-> loaded.params[fallback]]
             ELSE [ok |-> FALSE, err |-> "UnknownSku", entry |-> NoParams]

\* model_params.type_entries.iter().find(..).cloned().unwrap_or_else(..)
matched_type_entry(type_entries, raw_scence_hex_str) ==
    LET Strips(te) == Len(te.hex_prefix_remove) # 0
                        /\ starts_with(raw_scence_hex_str, te.hex_prefix_remove)
        Plain(te) == Len(te.hex_prefix_remove) = 0
        first == FindFirst([i \in 1..Len(type_entries) |-> Strips(type_entries[i])])
        second == FindFirst([i \in 1..Len(type_entries) |-> Plain(type_entries[i])])
    IN  IF first # 0 THEN type_entries[first]
        ELSE IF second # 0 THEN type_entries[second]
        ELSE DefaultTypeEntry

\* ((temp_payload_for_num_lines_calc.len() + 16) / 17).max(1) as u8, where
\* the temporary payload is [0x01, 0x00] followed by the segmentation payload.
num_lines_byte(payload_len) ==
    LET len == 2 + payload_len
        lines == (len + 16) \div 17
    IN  (IF lines < 1 THEN 1 ELSE lines) % 256

RECURSIVE SegmentLines(_, _, _, _, _)
\* The body of "for i in 0..num_lines_byte" from iteration i on, with
\* payload_cursor as it stands: the raw contents of the lines pushed.
SegmentLines(full, num_lines, prefix_byte, i, payload_cursor) ==
    IF i >= num_lines THEN <<>>
    ELSE IF payload_cursor >= Len(full) /\ num_lines > 0 /\ i > 0 THEN <<>>
    ELSE LET line_index_byte == IF num_lines = 1 THEN 255
                                ELSE IF i = num_lines - 1 THEN 255
                                ELSE i
             chunk_end == Min2(payload_cursor + 17, Len(full))
             current_line_data ==
                 <<prefix_byte, line_index_byte>>
                    \o SubSeq(full, payload_cursor + 1, chunk_end)
         IN  <<current_line_data>>
                \o SegmentLines(full, num_lines, prefix_byte, i + 1, chunk_end)

RECURSIVE FinishAll(_, _)
\* for line_data in all_command_lines_data { stream.extend(finish(line_data)) }
FinishAll(lines, k) ==
    IF k > Len(lines) THEN <<>>
    ELSE finish(lines[k]) \o FinishAll(lines, k + 1)

\* u16::to_be_bytes, the high byte first (a faulty variant of to_le_bytes).
to_be_bytes(code) == <<(code \div 256) % 256, code % 256>>

\* u16::to_le_bytes
to_le_bytes(code) == <<code % 256, (code \div 256) % 256>>

\* if model_params.on_command { .. } that appends the power-on frame after
\* the stream instead of putting it first (a faulty variant).
with_on_command_last(on_command, final_byte_stream) ==
    IF on_command
    THEN final_byte_stream \o finish(<<51, 1, 1>>)
    ELSE final_byte_stream

\* if model_params.on_command { temp_stream = finish([0x33, 0x01, 0x01]);
\* temp_stream.extend(final_byte_stream); .. }
with_on_command(on_command, final_byte_stream) ==
    IF on_command
    THEN finish(<<51, 1, 1>>) \o final_byte_stream
    ELSE final_byte_stream

\* data_for_segmentation_payload: the prefix to add followed by the scene
\* bytes, from which the prefix to strip has been removed when they begin
\* with it.
segmentation_payload(te, scence_bytes) ==
    LET remove == hex_string_to_bytes(te.hex_prefix_remove)
        current_scence_bytes ==
            IF Len(te.hex_prefix_remove) # 0 /\ starts_with(scence_bytes, remove.bytes)
            THEN SubSeq(scence_bytes, Len(remove.bytes) + 1, Len(scence_bytes))
            ELSE scence_bytes
    IN  hex_string_to_bytes(te.hex_prefix_add).bytes \o current_scence_bytes

\* all_command_lines_data as SetSceneCode::encode hands it to finish: the
\* lines the segmentation loop pushed, then mode_cmd_payload.
all_command_lines_data(model_params, te, scence_bytes, code) ==
    LET data_for_segmentation_payload == segmentation_payload(te, scence_bytes)
        num_lines == num_lines_byte(Len(data_for_segmentation_payload))
        full_payload_for_segmentation ==
            <<1, num_lines>> \o data_for_segmentation_payload
        multi == u8_from_str_radix(model_params.hex_multi_prefix)
        seg_lines == SegmentLines(full_payload_for_segmentation, num_lines,
                                  multi.value, 0, 0)
        suffix == hex_string_to_bytes(te.normal_command_suffix)
        mode_cmd_payload == <<51, 5, 4>> \o to_le_bytes(code) \o suffix.bytes
    IN  Append(seg_lines, mode_cmd_payload)

\* SetSceneCode::encode from the matched type entry on: the prefix is
\* stripped and added, the payload is cut into lines, the mode line is
\* appended and every line is framed.
encode_with_type_entry(model_params, te, scence_bytes, code) ==
    LET remove == hex_string_to_bytes(te.hex_prefix_remove)
        add == hex_string_to_bytes(te.hex_prefix_add)
        multi == u8_from_str_radix(model_params.hex_multi_prefix)
        suffix == hex_string_to_bytes(te.normal_command_suffix)
        final_byte_stream ==
            FinishAll(all_command_lines_data(model_params, te, scence_bytes, code), 1)
    IN  IF ~remove.ok THEN TextErr(remove.err)
        ELSE IF ~add.ok THEN TextErr(add.err)
        ELSE IF ~multi.ok THEN TextErr("InvalidHexMultiPrefix")
        ELSE IF ~suffix.ok THEN TextErr(suffix.err)
        ELSE TextOk(with_on_command(model_params.on_command, final_byte_stream))

\* SetSceneCode::encode(&self), reading the catalog value `loaded`.
SetSceneCode_encode(loaded, self) ==
    LET found == find_params_for_sku(loaded, self.sku)
        model_params == found.entry
        decoded == base64_decode(self.scence_param)
        raw_scence_hex_str == bytes_to_hex_string(decoded.bytes)
        te == matched_type_entry(model_params.type_entries, raw_scence_hex_str)
    IN  IF ~found.ok THEN TextErr(found.err)
        ELSE IF ~decoded.ok THEN TextErr(decoded.err)
        ELSE encode_with_type_entry(model_params, te, decoded.bytes, self.code)

(***************************************************************************)
(* Codecs as PacketCodec::new stores them, and the values they exchange.   *)
(***************************************************************************)
NoValue == [type |-> ""]
NoPacket == [variant |-> "", value |-> NoValue, raw |-> <<>>]

\* GoveeBlePacket::Generic(HexBytes(data.to_vec()))
Generic(data) == [variant |-> "Generic", value |-> NoValue, raw |-> data]
\* GoveeBlePacket::$variant(value)
Typed(variant, value) == [variant |-> variant, value |-> value, raw |-> <<>>]

\* What a call returns: Ok(bytes) or Err(err) of an encode, the packet of a
\* decode.
Ok(bytes) == [ok |-> TRUE, err |-> "", bytes |-> bytes, packet |-> NoPacket]
Err(why) == [ok |-> FALSE, err |-> why, bytes |-> <<>>, packet |-> NoPacket]
Decoded(packet) == [ok |-> TRUE, err |-> "", bytes |-> <<>>, packet |-> packet]
NoResult == [ok |-> FALSE, err |-> "pending", bytes |-> <<>>, packet |-> NoPacket]

\* usize subtraction that wraps below zero (a faulty variant of saturating_sub);
\* the wrapped value is beyond every buffer length (TLC's largest integer
\* stands for usize::MAX).
wrapping_sub(a, b) == IF a >= b THEN a - b ELSE 2147483647 - (b - a - 1)

\* usize::saturating_sub
saturating_sub(a, b) == IF a >= b THEN a - b ELSE 0

\* The end of the range in &data[0..data.len().saturating_sub(1)].
DropLastEnd(data) == saturating_sub(Len(data), 1)

\* &data[0..end] that keeps the last byte (a faulty variant of DropLast).
DropLast_keep(data) == data

\* &data[0..data.len().saturating_sub(1)]
DropLast(data) == SubSeq(data, 1, DropLastEnd(data))

DecodePanic == [ok |-> FALSE, err |-> "panic", packet |-> NoPacket]

\* any.downcast_ref::<T>() in the encoder PacketCodec::new wraps.
downcast_ok(codec, value) == codec.type_id = value.type

\* The encode closure of packet!: Ok(finish(bytes)).
packet_encode(codec, input_value) ==
    Ok(finish(encode_body(codec.body, input_value, 1)))

\* The decode closure of a codec that ignores the layout's literals and
\* the padding check (a faulty variant of codec_decode).
codec_decode_lenient(codec, data) ==
    IF codec.kind = "scene" \/ Len(data) < 2
    THEN [ok |-> FALSE, err |-> "UnsupportedOperation", packet |-> NoPacket]
    ELSE [ok |-> TRUE, err |-> "",
          packet |-> Typed(codec.variant, DefaultValue(codec.type_id))]

\* The decode closures with a packet! decoder that refuses a buffer whose
\* last byte is not the checksum of the bytes before it (a faulty variant of
\* codec_decode).
codec_decode_checked(codec, data) ==
    IF codec.kind = "scene"
    THEN [ok |-> FALSE, err |-> "UnsupportedOperation", packet |-> NoPacket]
    ELSE IF Len(data) = 0 \/ data[Len(data)] # calculate_checksum(DropLast(data))
    THEN [ok |-> FALSE, err |-> "ChecksumMismatch", packet |-> NoPacket]
    ELSE LET r == decode_body(codec.body, DefaultValue(codec.type_id), DropLast(data), 1)
         IN  IF r.ok
             THEN [ok |-> TRUE, err |-> "", packet |-> Typed(codec.variant, r.value)]
             ELSE [ok |-> FALSE, err |-> r.err, packet |-> NoPacket]

\* The decode closures with a SetSceneCode::decode that panics, as
\* unimplemented!() would (a faulty variant of codec_decode).
codec_decode_scene_panics(codec, data) ==
    IF codec.kind = "scene" THEN DecodePanic
    ELSE IF DropLastEnd(data) > Len(data) THEN DecodePanic
    ELSE LET r == decode_body(codec.body, DefaultValue(codec.type_id), DropLast(data), 1)
         IN  IF r.ok
             THEN [ok |-> TRUE, err |-> "", packet |-> Typed(codec.variant, r.value)]
             ELSE [ok |-> FALSE, err |-> r.err, packet |-> NoPacket]

\* (codec.decode)(data): the decode closure of packet!, or SetSceneCode::decode
\* for the scene codec.  Slicing past the end of data panics.
codec_decode(codec, data) ==
    IF codec.kind = "scene"
    THEN [ok |-> FALSE, err |-> "UnsupportedOperation", packet |-> NoPacket]
    ELSE IF DropLastEnd(data) > Len(data)
    THEN DecodePanic    \* range end index out of range for slice
    ELSE LET r == decode_body(codec.body, DefaultValue(codec.type_id), DropLast(data), 1)
         IN  IF r.ok
             THEN [ok |-> TRUE, err |-> "", packet |-> Typed(codec.variant, r.value)]
             ELSE [ok |-> FALSE, err |-> r.err, packet |-> NoPacket]

\* PacketManager::new that registers no codec when the catalog failed to
\* load (a faulty variant).
PacketManager_new_strict(loaded) ==
    IF loaded.ok THEN all_codecs ELSE <<>>

\* PacketManager::new: the catalog's failure is only logged; the codec list
\* is the same either way.
PacketManager_new(loaded) == all_codecs

Range(map) == {map[k] : k \in DOMAIN map}

(***************************************************************************)
(* Inputs: the SKUs, command values, buffers, catalogs and scenes the      *)
(* callers of the model use.                                               *)
(***************************************************************************)
SKUs == {"H7160", "Generic:Light", "H6065", "*"}

ModeBytes == {1, 32, 255}
HumidityBytes == {0, 50, 128, 178, 255}
Colors == {<<0, 0, 0>>, <<255, 69, 42>>}

Nightlight(type, on, brightness, rgb) ==
    [type |-> type, on |-> on, r |-> rgb[1], g |-> rgb[2], b |-> rgb[3],
     brightness |-> brightness]

\* Values of the fixed-layout command structs.
FixedValues ==
    {[type |-> "SetHumidifierMode", mode |-> m, param |-> q] :
        m \in ModeBytes, q \in ModeBytes}
    \cup {[type |-> "NotifyHumidifierMode", mode |-> m, param |-> q] :
        m \in ModeBytes, q \in ModeBytes}
    \cup {[type |-> "HumidifierAutoMode", target_humidity |-> h] : h \in HumidityBytes}
    \cup {Nightlight("NotifyHumidifierNightlightParams", on, br, c) :
        on \in BOOLEAN, br \in {0, 100}, c \in Colors}
    \cup {Nightlight("SetHumidifierNightlightParams", on, br, c) :
        on \in BOOLEAN, br \in {0, 100}, c \in Colors}
    \cup {[type |-> "SetDevicePower", on |-> on] : on \in BOOLEAN}

\* Payloads handed to with_bytes: every length up to MaxPayloadLen, bytes
\* alternating between two values or running through the byte range.
PatternBytes == {0, 1, 51, 255}
Payloads ==
    {[i \in 1..n |-> IF i % 2 = 1 THEN a ELSE b] :
        n \in 0..MaxPayloadLen, a \in PatternBytes, b \in PatternBytes}
    \cup {[i \in 1..n |-> (37 * i + a) % 256] :
        n \in 0..MaxPayloadLen, a \in PatternBytes}

\* The frame the codec for value's type produces.
FrameOf(v) ==
    LET k == CHOOSE k \in 1..Len(all_codecs) : all_codecs[k].type_id = v.type
    IN  finish(encode_body(all_codecs[k].body, v, 1))

\* Values whose frames, and variations of them, are the buffers decoded.
BaseValues ==
    { [type |-> "SetHumidifierMode", mode |-> 1, param |-> 32],
      [type |-> "NotifyHumidifierMode", mode |-> 0, param |-> 255],
      [type |-> "HumidifierAutoMode", target_humidity |-> 178],
      Nightlight("NotifyHumidifierNightlightParams", TRUE, 100, <<255, 69, 42>>),
      Nightlight("SetHumidifierNightlightParams", TRUE, 100, <<255, 69, 42>>),
      [type |-> "SetDevicePower", on |-> TRUE] }

SetByte(data, pos, b) == [i \in 1..Len(data) |-> IF i = pos THEN b ELSE data[i]]

\* Buffers handed to decode_for_sku: frames, frames with another last byte,
\* with a nonzero padding byte, with another header or field byte (0, 7 and
\* 255 where a bool field stands), cut short, one byte too long, and the
\* empty buffer.
Buffers ==
    LET frames == {FrameOf(v) : v \in BaseValues}
    IN  frames
        \cup {SetByte(f, 20, (f[20] + 1) % 256) : f \in frames}
        \cup {SetByte(f, pos, 7) : f \in frames, pos \in {2, 3, 9, 19}}
        \cup {SetByte(f, 3, x) : f \in frames, x \in {0, 255}}
        \cup {SubSeq(f, 1, n) : f \in frames, n \in {0, 1, 3, 4, 19}}
        \cup {f \o <<x>> : f \in frames, x \in {0, 9}}

TE(remove, add, suffix) ==
    [type_entry |-> 0, hex_prefix_remove |-> remove, hex_prefix_add |-> add,
     normal_command_suffix |-> suffix]

\* A catalog with the entries the repository's tests rely on (H6065, H619C)
\* and a "null" entry that asks for the power-on frame.
CatalogA ==
    << [models |-> <<"H6065">>, hex_multi_prefix |-> <<"a", "3">>,
        on_command |-> FALSE,
        type_entries |-> <<TE(<<"1", "2", "0", "0", "0", "0", "0", "0", "0", "0">>,
                              <<"0", "4">>, <<"0", "0", "4", "7">>)>>],
       [models |-> <<"H619C">>, hex_multi_prefix |-> <<"a", "3">>,
        on_command |-> FALSE,
        type_entries |-> <<TE(<<>>, <<"0", "2">>, <<>>)>>],
       [models |-> <<"null">>, hex_multi_prefix |-> <<"a", "1">>,
        on_command |-> TRUE,
        type_entries |-> <<TE(<<>>, <<>>, <<>>)>>] >>

\* A catalog without a "null" entry.
CatalogB == <<CatalogA[1]>>

Catalogs == {CatalogA, CatalogB}

\* What fetch_model_specific_parameters can return.
FetchOutcomes == {ParamsErr} \cup {ParamsOk(c) : c \in Catalogs}

\* "EgAAAAAnFQ8DAAEFAAgAEokAEokAEon/2DH/2DEAEokAEokAEok=" (test
\* scene_command_h6065_star).
BlobStar ==
    <<"E", "g", "A", "A", "A", "A", "A", "n", "F", "Q", "8", "D", "A",
      "A", "E", "F", "A", "A", "g", "A", "E", "o", "k", "A", "E", "o", "k",
      "A", "E", "o", "n", "/", "2", "D", "H", "/", "2", "D", "E", "A", "E",
      "o", "k", "A", "E", "o", "k", "A", "E", "o", "k", "=">>
\* "AQID": the bytes 01 02 03.
BlobShort == <<"A", "Q", "I", "D">>
\* "AQI": no valid base64.
BlobBad == <<"A", "Q", "I">>

Scene(code, blob, sku) ==
    [type |-> "SetSceneCode", code |-> code, scence_param |-> blob, sku |-> sku]

SceneValues ==
    {Scene(2899, blob, sku) :
        blob \in {BlobStar, BlobShort, BlobBad}, sku \in {"H6065", "H619C", "H7160"}}

\* A catalog entry (struct ModelSpecificParameter).
Entry(models, marker, on_command, type_entries) ==
    [models |-> models, hex_multi_prefix |-> marker, on_command |-> on_command,
     type_entries |-> type_entries]

\* Continuation markers as a catalog may spell them: two hex digits (lower
\* case, upper case, the byte 0x33 of the power commands), one digit, a
\* sign, no text, no hex, a value beyond a byte.
Markers ==
    { <<"a", "3">>, <<"A", "3">>, <<"3", "3">>, <<"a">>, <<"+", "a", "3">>,
      <<>>, <<"z", "z">>, <<"1", "a", "3">> }

\* A command suffix of 15 bytes, 01 02 .. 0f; its first 28 digits are the
\* longest suffix that fits a line after the five bytes of the mode command.
LongSuffix ==
    [i \in 1..30 |-> IF i % 2 = 1 THEN "0" ELSE HexLower[(i \div 2) + 1]]

\* Type entry lists: none; one plain entry; a prefix that matches no blob, a
\* plain entry and a later prefix matching BlobStar; upper-case and
\* odd-length prefixes of BlobAb before a plain entry; malformed hex in the
\* fields of the entry selected, and of an entry never selected; command
\* suffixes of 15 and of 14 bytes.
TypeEntryLists ==
    { <<>>,
      <<TE(<<>>, <<"0", "2">>, <<>>)>>,
      <<TE(<<"f", "f">>, <<"0", "1">>, <<>>),
        TE(<<>>, <<"0", "2">>, <<"0", "0", "4", "7">>),
        TE(<<"1", "2", "0", "0">>, <<"0", "4">>, <<"0", "0">>)>>,
      <<TE(<<"A", "B">>, <<"0", "4">>, <<>>), TE(<<>>, <<"0", "2">>, <<>>)>>,
      <<TE(<<"a">>, <<"0", "4">>, <<>>), TE(<<>>, <<"0", "2">>, <<>>)>>,
      <<TE(<<"a", "b">>, <<"0", "4">>, <<"4", "7">>), TE(<<>>, <<"0", "2">>, <<>>)>>,
      <<TE(<<>>, <<"0">>, <<>>)>>,
      <<TE(<<>>, <<>>, <<"4", "g">>)>>,
      <<TE(<<>>, <<"0", "2">>, <<>>), TE(<<"z", "z">>, <<"0">>, <<"4", "g">>)>>,
      <<TE(<<>>, <<"0", "2">>, LongSuffix)>>,
      <<TE(<<>>, <<"0", "2">>, SubSeq(LongSuffix, 1, 28))>> }

\* Catalog entries of the scene workload: for the H6065 every marker with a
\* plain type entry and every type entry list with a good marker, with and
\* without the power-on flag; an entry naming two models; a "null" entry.
SceneEntries ==
    {Entry(<<"H6065">>, m, FALSE, <<TE(<<>>, <<"0", "2">>, <<>>)>>) : m \in Markers}
    \cup {Entry(<<"H6065">>, <<"a", "3">>, on, tes) :
            on \in BOOLEAN, tes \in TypeEntryLists}
    \cup {Entry(<<"H619C", "H6065">>, <<"a", "4">>, TRUE, <<TE(<<>>, <<>>, <<>>)>>),
          Entry(<<"null">>, <<"a", "1">>, TRUE, <<TE(<<>>, <<>>, <<>>)>>)}

\* Catalogs of the scene workload: the test catalog, no entry, any one
\* entry, and any entry before or after the "null" entry or the entry
\* naming two models.
SceneCatalogs ==
    LET two == Entry(<<"H619C", "H6065">>, <<"a", "4">>, TRUE, <<TE(<<>>, <<>>, <<>>)>>)
        null == Entry(<<"null">>, <<"a", "1">>, TRUE, <<TE(<<>>, <<>>, <<>>)>>)
    IN  {CatalogA, <<>>}
        \cup {<<e>> : e \in SceneEntries}
        \cup {<<e, f>> : e \in SceneEntries, f \in {two, null}}
        \cup {<<f, e>> : e \in SceneEntries, f \in {two, null}}

\* "qwEC": the bytes ab 01 02.
BlobAb == <<"q", "w", "E", "C">>
\* Fifteen zero bytes: with the two header bytes, one full line of 17.
BlobLine == [i \in 1..20 |-> "A"]
\* 4335 zero bytes: a payload of 256 lines.
BlobLong == [i \in 1..(4 * 1445) |-> "A"]

\* The scenes of the scene workload: every blob for a SKU with entries of
\* its own, for a SKU named with another and for a SKU no entry names.
SceneWorkloadValues ==
    {Scene(2899, blob, sku) :
        blob \in {BlobStar, BlobShort, BlobBad, <<>>, BlobAb, BlobLine},
        sku \in {"H6065", "H619C", "H7160"}}
    \cup {Scene(65535, BlobShort, "H6065"), Scene(0, BlobLong, "H6065")}

(***************************************************************************)
(* Calls.  A call is one use of the module's public interface by a caller: *)
(* Base64HexBytes::with_bytes, Base64HexBytes::encode_for_sku and          *)
(* decode_for_sku (both through the lazy static MGR), the two in a row as  *)
(* test::round_trip makes them, and SetSceneCode::encode called directly.  *)
(***************************************************************************)
NoCall == [kind |-> "", sku |-> "", value |-> NoValue, data |-> <<>>]
CallWithBytes(bytes) ==
    [kind |-> "with_bytes", sku |-> "", value |-> NoValue, data |-> bytes]
CallEncode(sku, value) ==
    [kind |-> "encode_for_sku", sku |-> sku, value |-> value, data |-> <<>>]
CallDecode(sku, data) ==
    [kind |-> "decode_for_sku", sku |-> sku, value |-> NoValue, data |-> data]
CallRoundTrip(sku, value) ==
    [kind |-> "round_trip", sku |-> sku, value |-> value, data |-> <<>>]
CallSceneEncode(value) ==
    [kind |-> "scene_encode", sku |-> "", value |-> value, data |-> <<>>]

\* The calls of the sequential workload: one caller, one call, any input.
SequentialCalls ==
    {CallWithBytes(p) : p \in Payloads}
    \cup {CallEncode(sku, v) : sku \in SKUs, v \in FixedValues \cup SceneValues}
    \cup {CallRoundTrip(sku, v) : sku \in SKUs, v \in FixedValues}
    \cup {CallDecode(sku, d) : sku \in SKUs, d \in Buffers}
    \cup {CallSceneEncode(v) : v \in SceneValues}

\* The calls of the scene workload: one caller, one direct scene encode.
SceneCalls == {CallSceneEncode(v) : v \in SceneWorkloadValues}

\* The calls of the concurrent workload: a few inputs, any interleaving.
ConcurrentCalls ==
    { CallWithBytes(<<51, 1, 1>>),
      CallEncode("H7160", [type |-> "SetHumidifierMode", mode |-> 1, param |-> 32]),
      CallEncode("H6065", Scene(2899, BlobShort, "H6065")),
      CallDecode("H6065", FrameOf([type |-> "SetDevicePower", on |-> TRUE])),
      CallDecode("H6065", <<>>),
      CallSceneEncode(Scene(2899, BlobShort, "H6065")) }

(***************************************************************************)
(* State.                                                                  *)
(***************************************************************************)
VARIABLES
    workload,               \* "concurrent" or "sequential": who calls, fixed at start
    calls_left,             \* calls the callers may still make
    MODEL_SPECIFIC_PARAMS,  \* the Lazy catalog: [state, value]
    MGR,                    \* the Lazy PacketManager: [state, all_codecs]
    codec_by_sku,           \* PacketManager.codec_by_sku: SKU -> (type id -> codec index)
    lock,                   \* the thread holding the codec_by_sku mutex, or 0
    fetches,                \* runs of fetch_model_specific_parameters started
    builds,                 \* per SKU, runs of the or_insert_with closure
    pc,                     \* per thread, where it stands
    call,                   \* per thread, the call it is making
    op,                     \* per thread, the PacketManager method it is in
    data,                   \* per thread, the buffer to frame or decode
    tried,                  \* per thread, the codecs its decode loop has visited
    codec,                  \* per thread, the codec resolve_by_sku returned (0: none)
    result,                 \* per thread, what its call returns
    reg,                    \* a registry handed to map_for_sku's closure: [codecs, sku, map, built]
    humidity,               \* a TargetHumidity built from a percentage: [state, percent, inner, read]
    semaphore_by_id,        \* State.semaphore_by_id: device id -> semaphore (0: no entry)
    semaphores,             \* the Semaphore objects allocated so far: permits available in each
    control,                \* per caller of resolve_device_for_control: [pc, device, semaphore]
    coordinators,           \* the Coordinators returned so far: [id, semaphore, permit, tx, task, polls]
    devices_by_id,          \* State.devices_by_id: device id -> [active_scene, lan_status]
    svc,                    \* the device_set_scene / device_power_on call in progress
    clock,                  \* Instant::now(), in units of the 100 ms sleep
    scene_list              \* the scene-name functions applied: [state, input, output, api, parsed]

shared == <<MODEL_SPECIFIC_PARAMS, MGR, codec_by_sku, lock, fetches, builds>>
local == <<pc, call, op, data, tried, codec, result>>
env == <<workload, reg, humidity, semaphore_by_id, semaphores, control, coordinators,
        devices_by_id, svc, clock, scene_list>>
vars == <<env, calls_left, shared, local>>

AllThreads == 1..NumThreads
Threads == IF workload = "concurrent" THEN AllThreads ELSE {1}
Calls ==
    CASE workload = "concurrent" -> ConcurrentCalls
      [] workload = "scene" -> SceneCalls
      [] OTHER -> SequentialCalls

\* What the fetch can return in the workload at hand.
Outcomes ==
    IF workload = "scene"
    THEN {ParamsErr} \cup {ParamsOk(c) : c \in SceneCatalogs}
    ELSE FetchOutcomes

(***************************************************************************)
(* service/state.rs: the State shared by the callers of the service.       *)
(* Strings are sequences of ASCII codes; <<>> also stands for None.        *)
(***************************************************************************)
\* The ids of the devices the service knows: "d1" and "d2".
DeviceIds == {<<100, 49>>, <<100, 50>>}

\* State::default() once discovery has entered the devices: no semaphore
\* exists, no caller is inside resolve_device_for_control, no Coordinator has
\* been handed out, no scene is active, no call is in progress.
StateDefault ==
    /\ semaphore_by_id = [id \in DeviceIds |-> 0]
    /\ semaphores = <<>>
    /\ control = [t \in 1..NumCallers |-> [pc |-> "idle", device |-> <<>>, semaphore |-> 0]]
    /\ coordinators = <<>>
    /\ devices_by_id = [id \in DeviceIds |-> [active_scene |-> <<>>, lan_status |-> <<>>]]
    /\ svc = [pc |-> "idle"]
    /\ clock = 0
    /\ scene_list = [state |-> "none", input |-> <<>>, output |-> <<>>,
                     api |-> <<>>, parsed |-> <<>>]

InitState ==
    /\ StateDefault
    /\ MODEL_SPECIFIC_PARAMS = [state |-> "uninit", value |-> ParamsErr]
    /\ MGR = [state |-> "uninit", all_codecs |-> <<>>]
    /\ codec_by_sku = EmptyMap
    /\ lock = 0
    /\ fetches = 0
    /\ builds = [sku \in SKUs |-> 0]
    /\ pc = [t \in AllThreads |-> "idle"]
    /\ call = [t \in AllThreads |-> NoCall]
    /\ op = [t \in AllThreads |-> ""]
    /\ data = [t \in AllThreads |-> <<>>]
    /\ tried = [t \in AllThreads |-> {}]
    /\ codec = [t \in AllThreads |-> 0]
    /\ result = [t \in AllThreads |-> NoResult]

\* No TargetHumidity has been built.
NoHumidity == [state |-> "none", percent |-> 0, inner |-> 0, read |-> 0]

\* No registry is handed to the closure.
NoReg == [codecs |-> <<>>, sku |-> "", map |-> EmptyMap, built |-> FALSE]

\* The process starts; NumThreads callers will make MaxCalls calls in all.
Init ==
    /\ workload = "concurrent"
    /\ reg = NoReg
    /\ humidity = NoHumidity
    /\ calls_left = MaxCalls
    /\ InitState

\* The process starts; a single caller will make one call.
InitSequential ==
    /\ workload = "sequential"
    /\ reg = NoReg
    /\ humidity = NoHumidity
    /\ calls_left = 1
    /\ InitState

\* The process starts; a single caller will encode one scene directly.
InitScene ==
    /\ workload = "scene"
    /\ reg = NoReg
    /\ humidity = NoHumidity
    /\ calls_left = 1
    /\ InitState

(***************************************************************************)
(* once_cell::sync::Lazy: the first thread to dereference the cell runs    *)
(* the initialiser, threads arriving meanwhile block, and the value stays. *)
(***************************************************************************)
\* A cell read by fetching the catalog anew whenever no fetch is running
\* (a faulty variant).
LazyNeedsInit_refetch(cell) == cell.state \in {"uninit", "done"}

\* A Lazy that runs its initialiser again after it returned Err (a faulty variant).
LazyNeedsInit_retry(cell) ==
    cell.state = "uninit" \/ (cell.state = "done" /\ ~cell.value.ok)

\* The dereferencing thread has to run the initialiser.
LazyNeedsInit(cell) == cell.state = "uninit"

\* A cell that counts as initialised only once the fetch has succeeded,
\* while the initialiser is still run once only (a faulty variant of
\* LazyReady).
LazyReady_if_ok(cell) == cell.state = "done" /\ cell.value.ok

\* The cell holds its value.
LazyReady(cell) == cell.state = "done"

\* entry(sku) that always runs the closure and stores its map (a faulty variant).
CacheMiss_always(cache, sku) == TRUE

\* codecs.entry(sku.to_string()).or_insert_with(..) runs the closure.
CacheMiss(cache, sku) == sku \notin DOMAIN cache

\* resolve_by_sku that falls back to any codec of the SKU (a faulty variant).
resolve_by_sku_fallback(map, type_id) ==
    IF type_id \in DOMAIN map THEN map[type_id]
    ELSE IF DOMAIN map = {} THEN 0
    ELSE map[CHOOSE k \in DOMAIN map : TRUE]

\* map.get(type_id).cloned(): the codec's index, or 0 for None.
resolve_by_sku(map, type_id) ==
    IF type_id \in DOMAIN map THEN map[type_id] ELSE 0

\* The codecs `for codec in map.values()` can visit next: HashMap iterates
\* in an order of its own, visiting every value once.
NextCodecs(map, visited) == Range(map) \ visited

(***************************************************************************)
(* Actions.                                                                *)
(***************************************************************************)
\* A caller starts a call.
Call(t) ==
    /\ t \in Threads
    /\ pc[t] = "idle"
    /\ calls_left > 0
    /\ \E c \in Calls :
        /\ call' = [call EXCEPT ![t] = c]
        /\ data' = [data EXCEPT ![t] = c.data]
        /\ op' = [op EXCEPT ![t] =
                    CASE c.kind = "decode_for_sku" -> "decode"
                      [] c.kind \in {"encode_for_sku", "round_trip"} -> "encode"
                      [] OTHER -> ""]
        /\ pc' = [pc EXCEPT ![t] =
                    CASE c.kind = "with_bytes" -> "with_bytes"
                      [] c.kind = "scene_encode" -> "scene"
                      [] OTHER -> "mgr"]
    /\ calls_left' = calls_left - 1
    /\ UNCHANGED <<env, shared, tried, codec, result>>

\* Base64HexBytes::with_bytes: Self(HexBytes(finish(bytes))).
WithBytes(t) ==
    /\ pc[t] = "with_bytes"
    /\ result' = [result EXCEPT ![t] = Ok(finish(data[t]))]
    /\ pc' = [pc EXCEPT ![t] = "done"]
    /\ UNCHANGED <<env, calls_left, shared, call, op, data, tried, codec>>

\* Dereferencing MGR: it is initialised, or this thread starts
\* PacketManager::new; a thread finding it being initialised waits.
DerefMGR(t) ==
    /\ pc[t] = "mgr"
    /\ \/ /\ MGR.state = "init"
          /\ pc' = [pc EXCEPT ![t] = "lock"]
          /\ UNCHANGED MGR
       \/ /\ MGR.state = "uninit"
          /\ MGR' = [MGR EXCEPT !.state = "running"]
          /\ pc' = [pc EXCEPT ![t] = "new"]
    /\ UNCHANGED <<env, calls_left, MODEL_SPECIFIC_PARAMS, codec_by_sku, lock,
                   fetches, builds, call, op, data, tried, codec, result>>

\* Dereferencing MODEL_SPECIFIC_PARAMS when it has to be initialised: this
\* thread starts fetch_model_specific_parameters.
StartFetch(t) ==
    /\ pc[t] \in {"new", "scene"}
    /\ LazyNeedsInit(MODEL_SPECIFIC_PARAMS)
    /\ fetches < MaxCount
    /\ MODEL_SPECIFIC_PARAMS' = [MODEL_SPECIFIC_PARAMS EXCEPT !.state = "running"]
    /\ fetches' = fetches + 1
    /\ pc' = [pc EXCEPT ![t] = IF pc[t] = "new" THEN "fetch_new" ELSE "fetch_scene"]
    /\ UNCHANGED <<env, calls_left, MGR, codec_by_sku, lock, builds,
                   call, op, data, tried, codec, result>>

\* fetch_model_specific_parameters returns: the download and the parse
\* succeeded with some catalog, or one of them failed.
FinishFetch(t) ==
    /\ pc[t] \in {"fetch_new", "fetch_scene"}
    /\ \E outcome \in Outcomes :
        MODEL_SPECIFIC_PARAMS' = [state |-> "done", value |-> outcome]
    /\ pc' = [pc EXCEPT ![t] = IF pc[t] = "fetch_new" THEN "new" ELSE "scene"]
    /\ UNCHANGED <<env, calls_left, MGR, codec_by_sku, lock, fetches, builds,
                   call, op, data, tried, codec, result>>

\* PacketManager::new with the catalog forced: the codecs are registered
\* and MGR holds its value.
PacketManagerNew(t) ==
    /\ pc[t] = "new"
    /\ LazyReady(MODEL_SPECIFIC_PARAMS)
    /\ MGR' = [state |-> "init",
               all_codecs |-> PacketManager_new(MODEL_SPECIFIC_PARAMS.value)]
    /\ pc' = [pc EXCEPT ![t] = "lock"]
    /\ UNCHANGED <<env, calls_left, MODEL_SPECIFIC_PARAMS, codec_by_sku, lock,
                   fetches, builds, call, op, data, tried, codec, result>>

\* map_for_sku: the mutex is taken and the SKU's map is looked up, built
\* first when the cache has none.
MapForSku(t) ==
    /\ pc[t] = "lock"
    /\ lock = 0
    /\ lock' = t
    /\ LET sku == call[t].sku
       IN  IF CacheMiss(codec_by_sku, sku)
           THEN /\ builds[sku] < MaxCount
                /\ codec_by_sku' = MapInsert(codec_by_sku, sku,
                        BuildMap(MGR.all_codecs, sku, Len(MGR.all_codecs)))
                /\ builds' = [builds EXCEPT ![sku] = @ + 1]
           ELSE UNCHANGED <<codec_by_sku, builds>>
    /\ tried' = [tried EXCEPT ![t] = {}]
    /\ pc' = [pc EXCEPT ![t] = IF op[t] = "decode" THEN "decode" ELSE "resolve"]
    /\ UNCHANGED <<env, calls_left, MODEL_SPECIFIC_PARAMS, MGR, fetches,
                   call, op, data, codec, result>>

\* resolve_by_sku returns, dropping the guard: the codec for the value's
\* type, or the no-codec error, which encode_for_sku passes on.
Resolve(t) ==
    /\ pc[t] = "resolve"
    /\ lock = t
    /\ lock' = 0
    /\ LET found == resolve_by_sku(codec_by_sku[call[t].sku], call[t].value.type)
       IN  IF found = 0
           THEN /\ result' = [result EXCEPT ![t] = Err("NoCodecForType")]
                /\ pc' = [pc EXCEPT ![t] = "done"]
                /\ UNCHANGED codec
           ELSE /\ codec' = [codec EXCEPT ![t] = found]
                /\ pc' = [pc EXCEPT ![t] = "encode"]
                /\ UNCHANGED result
    /\ UNCHANGED <<env, calls_left, MODEL_SPECIFIC_PARAMS, MGR, codec_by_sku,
                   fetches, builds, call, op, data, tried>>

\* (codec.encode)(value): the value is downcast to the codec's type; a
\* packet! codec frames it, the scene codec calls value.encode().
\* test::round_trip goes on to decode the bytes.
RunEncode(t) ==
    /\ pc[t] = "encode"
    /\ LET c == MGR.all_codecs[codec[t]]
           r == packet_encode(c, call[t].value)
       IN  IF ~downcast_ok(c, call[t].value)
           THEN /\ result' = [result EXCEPT ![t] = Err("DowncastFailed")]
                /\ pc' = [pc EXCEPT ![t] = "done"]
                /\ UNCHANGED <<data, op>>
           ELSE IF c.kind = "scene"
           THEN /\ pc' = [pc EXCEPT ![t] = "scene"]
                /\ UNCHANGED <<result, data, op>>
           ELSE /\ result' = [result EXCEPT ![t] = r]
                /\ IF call[t].kind = "round_trip"
                   THEN /\ data' = [data EXCEPT ![t] = r.bytes]
                        /\ op' = [op EXCEPT ![t] = "decode"]
                        /\ pc' = [pc EXCEPT ![t] = "mgr"]
                   ELSE /\ pc' = [pc EXCEPT ![t] = "done"]
                        /\ UNCHANGED <<data, op>>
    /\ UNCHANGED <<env, calls_left, shared, call, tried, codec>>

\* SetSceneCode::encode once MODEL_SPECIFIC_PARAMS holds its value.
SceneEncode(t) ==
    /\ pc[t] = "scene"
    /\ LazyReady(MODEL_SPECIFIC_PARAMS)
    /\ LET r == SetSceneCode_encode(MODEL_SPECIFIC_PARAMS.value, call[t].value)
       IN  result' = [result EXCEPT ![t] = IF r.ok THEN Ok(r.bytes) ELSE Err(r.err)]
    /\ pc' = [pc EXCEPT ![t] = "done"]
    /\ UNCHANGED <<env, calls_left, shared, call, op, data, tried, codec>>

\* One iteration of decode_for_sku's loop: the next codec of the map is
\* tried; its success is returned at once, dropping the guard (a panic
\* of the decoder unwinds out of the call, dropping the guard too).
DecodeTry(t) ==
    /\ pc[t] = "decode"
    /\ lock = t
    /\ \E i \in NextCodecs(codec_by_sku[call[t].sku], tried[t]) :
        LET r == codec_decode(MGR.all_codecs[i], data[t])
        IN  /\ tried' = [tried EXCEPT ![t] = @ \cup {i}]
            /\ IF r.ok \/ r = DecodePanic
               THEN /\ result' = [result EXCEPT ![t] =
                                    IF r.ok THEN Decoded(r.packet) ELSE Err("panic")]
                    /\ lock' = 0
                    /\ pc' = [pc EXCEPT ![t] = "done"]
               ELSE UNCHANGED <<result, lock, pc>>
    /\ UNCHANGED <<env, calls_left, MODEL_SPECIFIC_PARAMS, MGR, codec_by_sku,
                   fetches, builds, call, op, data, codec>>

\* decode_for_sku's loop ends without a success: the Generic packet.
DecodeFallback(t) ==
    /\ pc[t] = "decode"
    /\ lock = t
    /\ NextCodecs(codec_by_sku[call[t].sku], tried[t]) = {}
    /\ result' = [result EXCEPT ![t] = Decoded(Generic(data[t]))]
    /\ lock' = 0
    /\ pc' = [pc EXCEPT ![t] = "done"]
    /\ UNCHANGED <<env, calls_left, MODEL_SPECIFIC_PARAMS, MGR, codec_by_sku,
                   fetches, builds, call, op, data, tried, codec>>

\* The call returns to the caller.
Return(t) ==
    /\ pc[t] = "done"
    /\ pc' = [pc EXCEPT ![t] = "idle"]
    /\ call' = [call EXCEPT ![t] = NoCall]
    /\ op' = [op EXCEPT ![t] = ""]
    /\ data' = [data EXCEPT ![t] = <<>>]
    /\ tried' = [tried EXCEPT ![t] = {}]
    /\ codec' = [codec EXCEPT ![t] = 0]
    /\ result' = [result EXCEPT ![t] = NoResult]
    /\ UNCHANGED <<env, calls_left, shared>>

Next ==
    \E t \in AllThreads :
        \/ Call(t)
        \/ WithBytes(t)
        \/ DerefMGR(t)
        \/ StartFetch(t)
        \/ FinishFetch(t)
        \/ PacketManagerNew(t)
        \/ MapForSku(t)
        \/ Resolve(t)
        \/ RunEncode(t)
        \/ SceneEncode(t)
        \/ DecodeTry(t)
        \/ DecodeFallback(t)
        \/ Return(t)

(***************************************************************************)
(* The closure of map_for_sku as a function of the codec list: registries  *)
(* other than the one PacketManager::new builds, with several codecs of    *)
(* one type.                                                               *)
(***************************************************************************)
\* Codecs for two command types, each scoped to one SKU or to every SKU,
\* in two layouts.
TestCodecs ==
    {Packet(skus, type, type, <<Lit(51), Lit(h), Fld("on", "bool")>>) :
        skus \in {<<"H7160">>, <<"Generic:Light", "*">>},
        type \in {"SetDevicePower", "SetHumidifierMode"},
        h \in {1, 5}}

\* The registry of PacketManager::new and every list of two or three test
\* codecs.
Registries ==
    {all_codecs}
    \cup {<<a, b>> : a \in TestCodecs, b \in TestCodecs}
    \cup {<<a, b, c>> : a \in TestCodecs, b \in TestCodecs, c \in TestCodecs}

InitRegistry ==
    /\ workload = "registry"
    /\ reg \in {[codecs |-> r, sku |-> sku, map |-> EmptyMap, built |-> FALSE] :
                    r \in Registries, sku \in SKUs}
    /\ humidity = NoHumidity
    /\ calls_left = 0
    /\ InitState

\* The or_insert_with closure of map_for_sku runs over the registry.
BuildRegistryMap ==
    /\ ~reg.built
    /\ reg' = [reg EXCEPT !.map = BuildMap(reg.codecs, reg.sku, Len(reg.codecs)),
                          !.built = TRUE]
    /\ UNCHANGED <<workload, humidity, calls_left, shared, local,
                 semaphore_by_id, semaphores, control, coordinators,
                 devices_by_id, svc, clock, scene_list>>

NextRegistry == BuildRegistryMap

\* The steps of a caller that encodes a scene directly.
NextScene ==
    \E t \in AllThreads :
        \/ Call(t)
        \/ StartFetch(t)
        \/ FinishFetch(t)
        \/ SceneEncode(t)
        \/ Return(t)

(***************************************************************************)
(* TargetHumidity as a function of the percentage: from_percent, then      *)
(* as_percent on the value built.                                          *)
(***************************************************************************)
\* Every u8.
Percentages == 0..255

InitHumidity ==
    /\ workload = "humidity"
    /\ reg = NoReg
    /\ humidity = NoHumidity
    /\ calls_left = 0
    /\ InitState

\* TargetHumidity::from_percent(percent) is called.
FromPercent ==
    /\ humidity.state = "none"
    /\ \E percent \in Percentages :
          \E r \in from_percent(percent) :
              humidity' = [state |-> IF r.panic THEN "panic" ELSE "built",
                           percent |-> percent, inner |-> r.inner, read |-> 0]
    /\ UNCHANGED <<workload, reg, calls_left, shared, local,
                 semaphore_by_id, semaphores, control, coordinators,
                 devices_by_id, svc, clock, scene_list>>

\* as_percent() is called on the value built.
AsPercent ==
    /\ humidity.state = "built"
    /\ humidity' = [humidity EXCEPT !.state = "read", !.read = as_percent(humidity.inner)]
    /\ UNCHANGED <<workload, reg, calls_left, shared, local,
                 semaphore_by_id, semaphores, control, coordinators,
                 devices_by_id, svc, clock, scene_list>>

NextHumidity == FromPercent \/ AsPercent

\* Concurrent callers, few inputs.
Spec == Init /\ [][Next]_vars

\* One caller, one call, every input.
SpecSequential == InitSequential /\ [][Next]_vars

\* map_for_sku's closure on any registry.
SpecRegistry == InitRegistry /\ [][NextRegistry]_vars

\* One caller, one direct scene encode, any catalog.
SpecScene == InitScene /\ [][NextScene]_vars

\* from_percent and as_percent on every u8.
SpecHumidity == InitHumidity /\ [][NextHumidity]_vars

(***************************************************************************)
(* Properties.                                                             *)
(***************************************************************************)
\* Bit k of byte x.
Bit(x, k) == (x \div (2 ^ k)) % 2

RECURSIVE OnesAt(_, _, _)
\* How many of the first n bytes have bit k set.
OnesAt(bytes, k, n) ==
    IF n = 0 THEN 0 ELSE Bit(bytes[n], k) + OnesAt(bytes, k, n - 1)

\* The payload right-padded with zeros to FramePayloadLen bytes.
Padded(payload) ==
    [i \in 1..FramePayloadLen |-> IF i <= Len(payload) THEN payload[i] ELSE 0]

\* A caller's call of the given kinds has produced its result.
Done(t, kinds) == pc[t] = "done" /\ call[t].kind \in kinds

\* C1: for a payload of 0..19 bytes the framer returns exactly 20 bytes; the
\* first 19 are the payload right-padded with zeros, and every bit of the
\* last byte is the parity of that bit over the first 19 bytes (their XOR).
C1_FinishFrame ==
    \A t \in AllThreads :
        (Done(t, {"with_bytes"}) /\ Len(call[t].data) <= FramePayloadLen) =>
            LET frame == result[t].bytes
            IN  /\ result[t].ok
                /\ Len(frame) = FramePayloadLen + 1
                /\ SubSeq(frame, 1, FramePayloadLen) = Padded(call[t].data)
                /\ \A k \in 0..7 :
                     Bit(frame[FramePayloadLen + 1], k)
                        = OnesAt(frame, k, FramePayloadLen) % 2

\* C1 witness: a short payload has been framed, padded, and closed with a
\* checksum that is neither zero nor any payload byte.
C1_Witness ==
    \E t \in AllThreads :
        /\ Done(t, {"with_bytes"})
        /\ Len(call[t].data) \in 1..(FramePayloadLen - 1)
        /\ Len(result[t].bytes) = FramePayloadLen + 1
        /\ result[t].bytes[FramePayloadLen] = 0
        /\ result[t].bytes[FramePayloadLen + 1] # 0
        /\ \A i \in 1..Len(call[t].data) :
             call[t].data[i] # result[t].bytes[FramePayloadLen + 1]

\* GoveeBlePacket's variant for each fixed-layout command struct.
VariantFor(type) ==
    CASE type = "SetHumidifierMode" -> "SetHumidifierMode"
      [] type = "NotifyHumidifierMode" -> "NotifyHumidifierMode"
      [] type = "HumidifierAutoMode" -> "NotifyHumidifierAutoMode"
      [] type = "NotifyHumidifierNightlightParams" -> "NotifyHumidifierNightlight"
      [] type = "SetHumidifierNightlightParams" -> "SetHumidifierNightlight"
      [] type = "SetDevicePower" -> "SetDevicePower"
      [] OTHER -> "SetSceneCode"

\* The command types registered for the H7160 only, and for every SKU.
H7160Types ==
    {"SetHumidifierMode", "NotifyHumidifierMode", "HumidifierAutoMode",
     "NotifyHumidifierNightlightParams", "SetHumidifierNightlightParams"}
WildcardTypes == {"SetSceneCode", "SetDevicePower"}

\* The command types the registrations make available to a SKU.
TypesFor(sku) == IF sku = "H7160" THEN H7160Types \cup WildcardTypes ELSE WildcardTypes

\* C2: encoding a fixed-layout command value for a SKU that supports its
\* type and decoding the bytes for the same SKU returns the variant of that
\* type carrying a value equal to the original.
C2_RoundTrip ==
    \A t \in AllThreads :
        (Done(t, {"round_trip"}) /\ call[t].value.type \in TypesFor(call[t].sku)) =>
            result[t] = Decoded(Typed(VariantFor(call[t].value.type), call[t].value))

\* C2 witness: a nightlight command with a bool field and byte 255 has gone
\* through encode and decode for the H7160 and come back as its variant.
C2_Witness ==
    \E t \in AllThreads :
        /\ Done(t, {"round_trip"})
        /\ call[t].sku = "H7160"
        /\ call[t].value.type = "SetHumidifierNightlightParams"
        /\ call[t].value.on /\ call[t].value.r = 255
        /\ op[t] = "decode"
        /\ result[t].packet.variant = "SetHumidifierNightlight"
        /\ result[t].packet.value = call[t].value

\* The codecs of the registry applicable to a SKU whose decoder accepts a
\* buffer, by registration index.
Accepting(sku, buffer) ==
    {i \in 1..Len(all_codecs) :
        /\ all_codecs[i].type_id \in TypesFor(sku)
        /\ codec_decode(all_codecs[i], buffer).ok}

\* C3: decode_for_sku returns a packet for every SKU and every buffer, the
\* empty one and those not 20 bytes long included; when no decoder registered
\* for the SKU accepts the buffer, the packet is Generic carrying exactly the
\* input bytes.
C3_DecodeNeverFails ==
    \A t \in AllThreads :
        Done(t, {"decode_for_sku"}) =>
            /\ result[t].ok
            /\ result[t].packet.variant # ""
            /\ Accepting(call[t].sku, call[t].data) = {} =>
                    result[t].packet = Generic(call[t].data)

\* C3 witness: the empty buffer has been decoded for the H7160, whose five
\* layouts and the scene and power codecs all refused it, giving Generic.
C3_Witness ==
    \E t \in AllThreads :
        /\ Done(t, {"decode_for_sku"})
        /\ call[t].sku = "H7160"
        /\ call[t].data = <<>>
        /\ tried[t] = 1..Len(all_codecs)
        /\ result[t] = Decoded(Generic(<<>>))

\* The first codec in registration order among those applicable to the SKU
\* whose decoder accepts the buffer (0: none).
FirstAccepting(sku, buffer) ==
    IF Accepting(sku, buffer) = {} THEN 0
    ELSE CHOOSE i \in Accepting(sku, buffer) :
            \A j \in Accepting(sku, buffer) : i <= j

\* The original statement of C4: the decode loop visits the SKU's codecs in
\* registration order, so a visited codec has every applicable codec
\* registered before it visited too.
C4_RegistrationOrder ==
    \A t \in AllThreads :
        (call[t].kind = "decode_for_sku" /\ pc[t] \in {"decode", "done"}) =>
            \A i \in tried[t] :
                \A j \in Range(codec_by_sku[call[t].sku]) : j < i => j \in tried[t]

\* C4 (amended): decode_for_sku visits the codecs of the SKU's map in the
\* map's own iteration order, each at most once, and returns the result of
\* the first visited codec whose decoder succeeds: every codec visited before
\* it failed.  No buffer is accepted by two registered decoders, so the
\* packet returned is the one the first registered accepting codec yields.
C4_FirstSuccess ==
    \A t \in AllThreads :
        Done(t, {"decode_for_sku"}) =>
            LET sku == call[t].sku
                first == FirstAccepting(sku, call[t].data)
                winners == {i \in tried[t] : codec_decode(all_codecs[i], call[t].data).ok}
            IN  /\ tried[t] \subseteq Range(codec_by_sku[sku])
                /\ Cardinality(winners) <= 1
                /\ Cardinality(Accepting(sku, call[t].data)) <= 1
                /\ IF first = 0
                   THEN winners = {} /\ tried[t] = Range(codec_by_sku[sku])
                   ELSE /\ winners = {first}
                        /\ result[t] = Decoded(codec_decode(all_codecs[first],
                                                            call[t].data).packet)

\* C4 witness: a frame of the NotifyHumidifierNightlight layout has been
\* decoded for the H7160 after a codec registered later than the accepting
\* one was visited and refused it.
C4_Witness ==
    \E t \in AllThreads :
        /\ Done(t, {"decode_for_sku"})
        /\ call[t].sku = "H7160"
        /\ result[t].packet.variant = "NotifyHumidifierNightlight"
        /\ 4 \in tried[t] /\ 7 \in tried[t] /\ 1 \notin tried[t]

\* C5: the codec map resolved for a SKU holds exactly the registered codecs
\* whose supported-SKU list names the SKU or the wildcard "*": SetDevicePower
\* and SetSceneCode for every SKU string, the five humidifier codecs for the
\* H7160 and for no other SKU.
C5_SkuResolution ==
    \A sku \in DOMAIN codec_by_sku :
        LET map == codec_by_sku[sku]
        IN  /\ DOMAIN map = TypesFor(sku)
            /\ WildcardTypes \subseteq DOMAIN map
            /\ (sku # "H7160") => DOMAIN map \cap H7160Types = {}
            /\ Range(map) =
                 {i \in 1..Len(all_codecs) :
                    \E k \in 1..Len(all_codecs[i].supported_skus) :
                        all_codecs[i].supported_skus[k] \in {sku, "*"}}
            /\ \A type \in DOMAIN map : all_codecs[map[type]].type_id = type

\* C5 witness: a SetDevicePower command has been encoded for a SKU that no
\* registration names, through the wildcard codec, while the map of that SKU
\* holds only the two wildcard codecs.
C5_Witness ==
    \E t \in AllThreads :
        /\ Done(t, {"encode_for_sku"})
        /\ call[t].sku = "H6065"
        /\ call[t].value.type = "SetDevicePower"
        /\ result[t].ok
        /\ Range(codec_by_sku["H6065"]) = {6, 7}

\* C6: encode_for_sku for a SKU and a command type with no applicable codec
\* returns the no-codec error and no bytes; no other codec of the SKU is used.
C6_NoCodecForType ==
    \A t \in AllThreads :
        (Done(t, {"encode_for_sku"}) /\ call[t].value.type \notin TypesFor(call[t].sku)) =>
            /\ result[t] = Err("NoCodecForType")
            /\ result[t].bytes = <<>>
            /\ codec[t] = 0

\* C6 witness: SetHumidifierMode has been refused for a light while the
\* map of that SKU holds other codecs.
C6_Witness ==
    \E t \in AllThreads :
        /\ Done(t, {"encode_for_sku"})
        /\ call[t].sku = "Generic:Light"
        /\ call[t].value.type = "SetHumidifierMode"
        /\ codec_by_sku["Generic:Light"] # EmptyMap
        /\ result[t] = Err("NoCodecForType")

\* The codecs of a registry applicable to a SKU for a command type, by
\* registration index.
Applicable(codecs, sku, type) ==
    {i \in 1..Len(codecs) :
        /\ codecs[i].type_id = type
        /\ \E k \in 1..Len(codecs[i].supported_skus) :
              codecs[i].supported_skus[k] \in {sku, "*"}}

\* C7: a SKU's codec map holds one codec per command type that has an
\* applicable codec and none for the others; when several registered codecs
\* of one type apply to the SKU, the map holds the one registered last.
C7_LaterRegistrationWins ==
    reg.built =>
        LET types == {reg.codecs[i].type_id : i \in 1..Len(reg.codecs)}
        IN  /\ DOMAIN reg.map = {type \in types : Applicable(reg.codecs, reg.sku, type) # {}}
            /\ \A type \in DOMAIN reg.map :
                 /\ reg.map[type] \in Applicable(reg.codecs, reg.sku, type)
                 /\ \A i \in Applicable(reg.codecs, reg.sku, type) : i <= reg.map[type]

\* C7 witness: a map has been built for the H7160 from a registry whose
\* first and third codecs are of one type and both apply, in different
\* layouts, and a second codec of another type; the third is retained.
C7_Witness ==
    /\ reg.built
    /\ reg.sku = "H7160"
    /\ Len(reg.codecs) = 3
    /\ reg.codecs[1].type_id = reg.codecs[3].type_id
    /\ reg.codecs[1].type_id # reg.codecs[2].type_id
    /\ reg.codecs[1].body # reg.codecs[3].body
    /\ Applicable(reg.codecs, reg.sku, reg.codecs[1].type_id) = {1, 3}
    /\ reg.map[reg.codecs[1].type_id] = 3

\* C8: each SKU's codec map is built exactly once, when the SKU is first
\* used, under any interleaving of the callers; a map in the cache is never
\* rebuilt, modified or removed, whichever SKU is used next.
C8_MapBuiltOnce ==
    /\ [](\A sku \in SKUs :
            builds[sku] = IF sku \in DOMAIN codec_by_sku THEN 1 ELSE 0)
    /\ [][\A sku \in DOMAIN codec_by_sku :
            /\ sku \in DOMAIN codec_by_sku'
            /\ codec_by_sku'[sku] = codec_by_sku[sku]
            /\ builds'[sku] = builds[sku]]_vars

\* C8 witness: two SKUs have their maps in the cache, each built once; one
\* caller has finished a call for one of them and another caller holds the
\* mutex in a further use of the same SKU.
C8_Witness ==
    /\ {"H7160", "H6065"} \subseteq DOMAIN codec_by_sku
    /\ builds["H7160"] = 1 /\ builds["H6065"] = 1
    /\ \E t, u \in AllThreads :
        /\ t # u
        /\ pc[u] = "done" /\ call[u].sku = "H6065"
        /\ lock = t /\ pc[t] = "decode" /\ call[t].sku = "H6065"

\* Callers that need the catalog's value: in PacketManager::new or in
\* SetSceneCode::encode, before the cell is read.
AtCatalog(t) == pc[t] \in {"new", "scene"}

\* C9: fetch_model_specific_parameters is started at most once under any
\* interleaving; a caller that needs the catalog while the fetch runs stays
\* where it is until the fetch has returned; once the outcome is stored it
\* never changes, so that every caller reads the same one, and a failure
\* stored starts no other fetch: scene encodes then fail on it.
C9_FetchOnce ==
    /\ [](fetches <= 1)
    /\ [](fetches = 0 <=> MODEL_SPECIFIC_PARAMS.state = "uninit")
    /\ [][\A t \in AllThreads :
            (MODEL_SPECIFIC_PARAMS.state = "running" /\ AtCatalog(t)) =>
                (pc'[t] = pc[t] /\ result'[t] = result[t])]_vars
    /\ [][MODEL_SPECIFIC_PARAMS.state = "done" =>
            (MODEL_SPECIFIC_PARAMS' = MODEL_SPECIFIC_PARAMS /\ fetches' = fetches)]_vars
    /\ [](\A t \in AllThreads :
            (pc[t] = "done" /\ call[t].value.type = "SetSceneCode"
                /\ ~MODEL_SPECIFIC_PARAMS.value.ok) =>
                  result[t] = Err("ParameterCatalogUnavailable"))

\* C9 witness: the one fetch has failed, and two callers have each finished
\* a scene encode on the stored failure, one through the manager and one
\* directly.
C9_Witness ==
    /\ fetches = 1
    /\ MODEL_SPECIFIC_PARAMS = [state |-> "done", value |-> ParamsErr]
    /\ \E t, u \in AllThreads :
        /\ pc[t] = "done" /\ call[t].kind = "encode_for_sku"
        /\ pc[u] = "done" /\ call[u].kind = "scene_encode"
        /\ result[t] = Err("ParameterCatalogUnavailable")
        /\ result[u] = Err("ParameterCatalogUnavailable")

\* What a fixed-layout call returns from a manager whose catalog loaded:
\* the call's codec is looked up in the map built from the registry of
\* PacketManager::new(Ok(..)), and its layout is encoded or decoded.
ResultWhenLoaded(c) ==
    LET codecs == PacketManager_new(ParamsOk(CatalogA))
        map == BuildMap(codecs, c.sku, Len(codecs))
        found == resolve_by_sku(map, c.value.type)
        accepting == {i \in Range(map) : codec_decode(codecs[i], c.data).ok}
    IN  IF c.kind = "encode_for_sku"
        THEN IF found = 0 THEN Err("NoCodecForType")
             ELSE packet_encode(codecs[found], c.value)
        ELSE IF accepting = {} THEN Decoded(Generic(c.data))
             ELSE Decoded(codec_decode(codecs[CHOOSE i \in accepting : TRUE], c.data).packet)

\* The call is an encode of a fixed-layout command or a decode.
FixedLayoutCall(c) ==
    \/ c.kind = "decode_for_sku"
    \/ c.kind = "encode_for_sku" /\ c.value.type # "SetSceneCode"

\* C10: once the catalog fetch has failed, every encode of a SetSceneCode,
\* through the manager or directly, returns an error, while every encode of
\* a fixed-layout command and every decode returns exactly what it returns
\* when the catalog loaded: the same result whatever the fetch's outcome.
C10_CatalogFailure ==
    \A t \in AllThreads :
        (pc[t] = "done" /\ MODEL_SPECIFIC_PARAMS.state = "done") =>
            /\ (call[t].value.type = "SetSceneCode" /\ ~MODEL_SPECIFIC_PARAMS.value.ok) =>
                    (~result[t].ok /\ result[t].bytes = <<>>)
            /\ FixedLayoutCall(call[t]) => result[t] = ResultWhenLoaded(call[t])

\* C10 witness: with the failure stored, a SetHumidifierMode command has
\* been encoded for the H7160 into the frame a loaded catalog gives.
C10_Witness ==
    \E t \in AllThreads :
        /\ MODEL_SPECIFIC_PARAMS = [state |-> "done", value |-> ParamsErr]
        /\ Done(t, {"encode_for_sku"})
        /\ call[t].sku = "H7160"
        /\ call[t].value = [type |-> "SetHumidifierMode", mode |-> 1, param |-> 32]
        /\ result[t] = Ok(<<51, 5, 1, 32, 0, 0, 0, 0, 0, 0, 0, 0, 0, 0, 0, 0, 0, 0, 0, 23>>)

\* The catalog entry, the type entry and the segmentation payload of a scene
\* encode that got as far as cutting lines.
SceneEntry(loaded, scene) == find_params_for_sku(loaded, scene.sku).entry
SceneTypeEntry(loaded, scene) ==
    matched_type_entry(SceneEntry(loaded, scene).type_entries,
                       bytes_to_hex_string(base64_decode(scene.scence_param).bytes))
ScenePayload(loaded, scene) ==
    segmentation_payload(SceneTypeEntry(loaded, scene),
                         base64_decode(scene.scence_param).bytes)

\* max(1, ceil(n / 17)) for the 2 header bytes and a payload of len bytes.
NumLines(len) ==
    LET ceil == ((2 + len) \div 17) + (IF (2 + len) % 17 = 0 THEN 0 ELSE 1)
    IN  IF ceil < 1 THEN 1 ELSE ceil

\* A caller's scene encode, direct or through the manager, has returned.
SceneDone(t) == pc[t] = "done" /\ call[t].value.type = "SetSceneCode"

\* Every 20-byte chunk of the stream closes with the XOR of its first 19.
FramedStream(stream) ==
    /\ Len(stream) > 0
    /\ Len(stream) % (FramePayloadLen + 1) = 0
    /\ \A f \in 0..((Len(stream) \div (FramePayloadLen + 1)) - 1) :
         \A k \in 0..7 :
            Bit(stream[(FramePayloadLen + 1) * (f + 1)], k)
              = OnesAt(SubSeq(stream, (FramePayloadLen + 1) * f + 1,
                              (FramePayloadLen + 1) * f + FramePayloadLen),
                       k, FramePayloadLen) % 2

\* C11: every successful encode yields a non-empty stream of whole 20-byte
\* frames, each closed by the XOR of its first 19 bytes; a successful scene
\* encode yields num_lines + 1 frames, one more with the power-on flag, with
\* num_lines = max(1, ceil((2 + L) / 17)), and base64() gives one string per
\* frame, each decoding to 20 bytes.
C11_FrameStream ==
    \A t \in AllThreads :
        (pc[t] = "done" /\ result[t].ok
            /\ call[t].kind \in {"encode_for_sku", "scene_encode"}) =>
            LET stream == result[t].bytes
                strings == base64(stream)
                loaded == MODEL_SPECIFIC_PARAMS.value
            IN  /\ FramedStream(stream)
                /\ \A i \in 1..Len(strings) :
                     /\ base64_decode(strings[i]).ok
                     /\ Len(base64_decode(strings[i]).bytes) = FramePayloadLen + 1
                /\ SceneDone(t) =>
                     /\ Len(stream) \div (FramePayloadLen + 1) =
                          NumLines(Len(ScenePayload(loaded, call[t].value))) + 1
                            + (IF SceneEntry(loaded, call[t].value).on_command
                               THEN 1 ELSE 0)
                     /\ Len(strings) = Len(stream) \div (FramePayloadLen + 1)

\* The frames of a stream, and the segmentation frames of a scene stream:
\* those after the power-on frame, if any, and before the mode line.
Frames(stream) == chunks(stream, FramePayloadLen + 1)
SegmentFrames(stream, on_command) ==
    SubSeq(Frames(stream), (IF on_command THEN 2 ELSE 1), Len(Frames(stream)) - 1)

\* C12: the number of segmentation lines of a scene encode and the count
\* byte at the head of its payload both equal max(1, ceil((2 + L) / 17)) for
\* a segmentation payload of L bytes; a payload filling its lines exactly
\* gets no extra line.
C12_LineCount ==
    \A t \in AllThreads :
        (SceneDone(t) /\ result[t].ok) =>
            LET loaded == MODEL_SPECIFIC_PARAMS.value
                lines == NumLines(Len(ScenePayload(loaded, call[t].value)))
                segments == SegmentFrames(result[t].bytes,
                                          SceneEntry(loaded, call[t].value).on_command)
            IN  /\ Len(segments) = lines
                /\ segments[1][3] = 1
                /\ segments[1][4] = lines

\* The frame 33 01 01, sixteen zero bytes, 33.
PowerOnFrame == <<51, 1, 1>> \o [i \in 1..16 |-> 0] \o <<51>>

\* C13: with the power-on flag of the resolved catalog entry set, the scene
\* encoder's output is the frame 33 01 01 00 x16 33 followed by exactly the
\* frames the same entry yields with the flag unset; with the flag unset the
\* output does not begin with that frame.
C13_PowerOnPrefix ==
    \A t \in AllThreads :
        (SceneDone(t) /\ result[t].ok) =>
            LET entry == SceneEntry(MODEL_SPECIFIC_PARAMS.value, call[t].value)
                unset == SetSceneCode_encode(
                            ParamsOk(<<[entry EXCEPT !.on_command = FALSE]>>),
                            call[t].value)
            IN  IF entry.on_command
                THEN unset.ok /\ result[t].bytes = PowerOnFrame \o unset.bytes
                ELSE /\ result[t].bytes = unset.bytes
                     /\ SubSeq(result[t].bytes, 1, FramePayloadLen + 1) # PowerOnFrame

\* C13 witness: a scene of several lines has been encoded for an entry with
\* the flag set; the stream opens with the power-on frame and goes on with
\* a segmentation frame.
C13_Witness ==
    \E t \in AllThreads :
        /\ SceneDone(t) /\ result[t].ok
        /\ SceneEntry(MODEL_SPECIFIC_PARAMS.value, call[t].value).on_command
        /\ Len(result[t].bytes) >= 4 * (FramePayloadLen + 1)
        /\ SubSeq(result[t].bytes, 1, FramePayloadLen + 1) = PowerOnFrame
        /\ result[t].bytes[FramePayloadLen + 2] = 163
        /\ result[t].bytes[FramePayloadLen + 3] = 0

\* C14: scene encoding is deterministic: two scene encodes of one process
\* for the same scene code, blob and SKU, direct or through the manager,
\* return the same bytes or the same error, whatever calls the callers make
\* in between; the catalog they read is the one snapshot of the process.
C14_SceneDeterminism ==
    \A t, u \in AllThreads :
        (SceneDone(t) /\ SceneDone(u) /\ call[t].value = call[u].value) =>
            /\ result[t] = result[u]
            /\ LET r == SetSceneCode_encode(MODEL_SPECIFIC_PARAMS.value, call[t].value)
               IN  result[t] = IF r.ok THEN Ok(r.bytes) ELSE Err(r.err)

\* C14 witness: two callers have encoded the same scene, one directly and
\* one through the manager, with a call for another SKU made in the same
\* process, and hold the same stream of two frames.
C14_Witness ==
    \E t, u \in AllThreads :
        /\ t # u
        /\ SceneDone(t) /\ SceneDone(u)
        /\ call[t].kind = "scene_encode" /\ call[u].kind = "encode_for_sku"
        /\ call[t].value = call[u].value
        /\ "H7160" \in DOMAIN codec_by_sku
        /\ result[t].ok
        /\ Len(result[t].bytes) = 2 * (FramePayloadLen + 1)
        /\ result[t] = result[u]

\* The registration index of the scene codec.
SceneCodec == CHOOSE i \in 1..Len(all_codecs) : all_codecs[i].type_id = "SetSceneCode"

\* C15: the scene command is write-only: decode_for_sku returns the
\* SetSceneCode variant for no SKU and no buffer, and the failure of the
\* scene codec's decoder keeps the caller in the loop over the other codecs:
\* the call ends as it does without the scene codec, with the packet of the
\* accepting layout or with Generic.
C15_SceneWriteOnly ==
    /\ [](\A t \in AllThreads :
            (call[t].kind = "decode_for_sku" /\ pc[t] = "done") =>
                /\ result[t].ok
                /\ result[t].packet.variant # "SetSceneCode"
                /\ SceneCodec \notin Accepting(call[t].sku, call[t].data)
                /\ (Accepting(call[t].sku, call[t].data) = {}) =>
                        (SceneCodec \in tried[t] /\ result[t].packet.variant = "Generic"))
    /\ [][\A t \in AllThreads :
            (SceneCodec \notin tried[t] /\ SceneCodec \in tried'[t]) =>
                (pc'[t] = "decode" /\ lock' = lock /\ result'[t] = result[t])]_vars

\* C15 witness: a SetDevicePower frame has been decoded for a SKU whose map
\* holds the scene codec and the power codec, after the scene codec was
\* tried and refused it.
C15_Witness ==
    \E t \in AllThreads :
        /\ Done(t, {"decode_for_sku"})
        /\ call[t].sku = "H6065"
        /\ tried[t] = {SceneCodec, 7}
        /\ result[t] = Decoded(Typed("SetDevicePower", [type |-> "SetDevicePower", on |-> TRUE]))

\* The buffer with its last byte replaced.
WithLastByte(buffer, b) == [i \in 1..Len(buffer) |-> IF i = Len(buffer) THEN b ELSE buffer[i]]

\* C16: decode does not look at the final byte: a buffer and any buffer of
\* the same length that differs from it in the last byte only are decoded
\* for a SKU to the same typed command, or both to the Generic fallback.
C16_LastByteIgnored ==
    \A t \in AllThreads :
        (Done(t, {"decode_for_sku"}) /\ Len(call[t].data) > 0) =>
            \A b \in {0, 1, 23, 255, (call[t].data[Len(call[t].data)] + 1) % 256} :
                LET other == WithLastByte(call[t].data, b)
                    first == FirstAccepting(call[t].sku, other)
                IN  IF result[t].packet.variant = "Generic"
                    THEN first = 0
                    ELSE /\ first # 0
                         /\ result[t].packet = codec_decode(all_codecs[first], other).packet

\* C16 witness: a SetHumidifierMode frame whose last byte is not its
\* checksum has been decoded for the H7160 to the typed command.
C16_Witness ==
    \E t \in AllThreads :
        /\ Done(t, {"decode_for_sku"})
        /\ call[t].sku = "H7160"
        /\ Len(call[t].data) = FramePayloadLen + 1
        /\ call[t].data[FramePayloadLen + 1]
              # calculate_checksum(SubSeq(call[t].data, 1, FramePayloadLen))
        /\ result[t] = Decoded(Typed("SetHumidifierMode",
                          [type |-> "SetHumidifierMode", mode |-> 1, param |-> 32]))


\* A catalog hex field that hex_string_to_bytes does not accept.
MalformedHex(s) == ~hex_string_to_bytes(s).ok

\* One of the failures of a scene encode: the catalog is unavailable, the
\* SKU has no entry and there is no "null" entry, the blob is no base64, or
\* a hex field of the resolved entry is malformed.
SceneFault(loaded, scene) ==
    \/ ~loaded.ok
    \/ ~find_params_for_sku(loaded, scene.sku).ok
    \/ ~base64_decode(scene.scence_param).ok
    \/ MalformedHex(SceneEntry(loaded, scene).hex_multi_prefix)
    \/ \E i \in 1..Len(SceneEntry(loaded, scene).type_entries) :
          LET te == SceneEntry(loaded, scene).type_entries[i]
          IN  \/ MalformedHex(te.hex_prefix_remove)
              \/ MalformedHex(te.hex_prefix_add)
              \/ MalformedHex(te.normal_command_suffix)

\* C17: every failure inside scene encoding is surfaced: an unavailable
\* catalog, an unknown SKU with no "null" entry, an invalid base64 blob and
\* a malformed hex string in any hex field of the catalog entry each make
\* SetSceneCode::encode return an error and no bytes.
C17_FailuresSurfaced ==
    \A t \in AllThreads :
        (SceneDone(t) /\ SceneFault(MODEL_SPECIFIC_PARAMS.value, call[t].value)) =>
            (~result[t].ok /\ result[t].bytes = <<>>)


\* Caller t runs a codec in this step: a decoder of the SKU's map is tried,
\* or the resolved codec's encoder is called.
RunsCodec(t) ==
    \/ pc[t] = "decode" /\ tried'[t] # tried[t]
    \/ pc[t] \in {"encode", "scene"} /\ pc'[t] # pc[t]

\* C18: the codec_by_sku mutex is held only while a SKU's map is looked up
\* or built: no caller runs a codec's encoder or decoder while it holds the
\* guard, and no caller waits for the mutex while another runs a codec.
C18_LockScope ==
    [][\A t \in AllThreads :
          RunsCodec(t) =>
              /\ lock # t
              /\ \A u \in AllThreads \ {t} : ~(pc[u] = "lock" /\ lock = t)]_vars


\* The position in the catalog of the entry the SKU resolves to: the least
\* position whose model list names the SKU; failing that, the least whose
\* model list names "null"; 0 when there is neither.
ResolvedPosition(params, sku) ==
    LET exact == {i \in 1..Len(params) : Contains(params[i].models, sku)}
        fallback == {i \in 1..Len(params) : Contains(params[i].models, "null")}
        Least(S) == CHOOSE i \in S : \A j \in S : i <= j
    IN  IF exact # {} THEN Least(exact)
        ELSE IF fallback # {} THEN Least(fallback)
        ELSE 0

\* The result of a scene encode that uses the entry at position k.
EncodedWith(params, k, scene) ==
    LET decoded == base64_decode(scene.scence_param)
        te == matched_type_entry(params[k].type_entries,
                                 bytes_to_hex_string(decoded.bytes))
        r == encode_with_type_entry(params[k], te, decoded.bytes, scene.code)
    IN  IF ~decoded.ok THEN Err(decoded.err)
        ELSE IF r.ok THEN Ok(r.bytes) ELSE Err(r.err)

\* C19: with the catalog available a scene encode uses the first entry, in
\* catalog order, whose model list contains the SKU; only when no entry
\* contains it, the first entry whose model list contains "null"; and it
\* fails with the unknown-SKU error only when there is neither.  An earlier
\* "null" entry does not displace an exact match.
C19_EntryResolution ==
    \A t \in AllThreads :
        (SceneDone(t) /\ MODEL_SPECIFIC_PARAMS.value.ok) =>
            LET params == MODEL_SPECIFIC_PARAMS.value.params
                k == ResolvedPosition(params, call[t].value.sku)
            IN  IF k = 0
                THEN result[t] = Err("UnknownSku")
                ELSE result[t] = EncodedWith(params, k, call[t].value)

\* C19 witness: a scene has been encoded for the H6065 with a catalog whose
\* first entry is the "null" entry and whose second names the H6065, and
\* the stream is that of the second entry, not that of the first.
C19_Witness ==
    \E t \in AllThreads :
        /\ SceneDone(t)
        /\ MODEL_SPECIFIC_PARAMS.value.ok
        /\ call[t].value.sku = "H6065"
        /\ LET params == MODEL_SPECIFIC_PARAMS.value.params
           IN  /\ Len(params) = 2
               /\ Contains(params[1].models, "null")
               /\ Contains(params[2].models, "H6065")
               /\ result[t].ok
               /\ result[t] = EncodedWith(params, 2, call[t].value)
               /\ result[t] # EncodedWith(params, 1, call[t].value)


\* The Type Entry selected when the prefix to strip is hex-decoded and
\* compared with the blob's bytes: the first entry whose prefix to strip is
\* nonempty and a byte-prefix of the blob, else the first whose prefix to
\* strip is empty, else the default entry.
BytePrefixTypeEntry(type_entries, scence_bytes) ==
    LET Strips(te) == /\ Len(te.hex_prefix_remove) # 0
                      /\ hex_decode(te.hex_prefix_remove).ok
                      /\ starts_with(scence_bytes, hex_decode(te.hex_prefix_remove).bytes)
        Plain(te) == Len(te.hex_prefix_remove) = 0
        first == FindFirst([i \in 1..Len(type_entries) |-> Strips(type_entries[i])])
        second == FindFirst([i \in 1..Len(type_entries) |-> Plain(type_entries[i])])
    IN  IF first # 0 THEN type_entries[first]
        ELSE IF second # 0 THEN type_entries[second]
        ELSE DefaultTypeEntry

\* C20: a scene encode selects the first Type Entry whose prefix to strip
\* is nonempty and a byte-prefix of the decoded blob; if none, the first
\* whose prefix to strip is empty; if none, the default entry with all
\* fields empty; and its result is that of encoding with this entry.
C20_TypeEntrySelection ==
    \A t \in AllThreads :
        LET loaded == MODEL_SPECIFIC_PARAMS.value
            scene == call[t].value
        IN  (/\ SceneDone(t)
             /\ find_params_for_sku(loaded, scene.sku).ok
             /\ base64_decode(scene.scence_param).ok) =>
                LET scence_bytes == base64_decode(scene.scence_param).bytes
                    entry == SceneEntry(loaded, scene)
                    te == BytePrefixTypeEntry(entry.type_entries, scence_bytes)
                    r == encode_with_type_entry(entry, te, scence_bytes, scene.code)
                IN  /\ SceneTypeEntry(loaded, scene) = te
                    /\ result[t] = IF r.ok THEN Ok(r.bytes) ELSE Err(r.err)


\* The two comparisons of a Type Entry's prefix to strip with the blob:
\* the hex string of the blob against the catalog's hex string, and the
\* hex-decoded prefix against the blob's bytes.
StringPrefixMatch(te, scence_bytes) ==
    /\ Len(te.hex_prefix_remove) # 0
    /\ starts_with(bytes_to_hex_string(scence_bytes), te.hex_prefix_remove)
BytePrefixMatch(te, scence_bytes) ==
    /\ Len(te.hex_prefix_remove) # 0
    /\ hex_decode(te.hex_prefix_remove).ok
    /\ starts_with(scence_bytes, hex_decode(te.hex_prefix_remove).bytes)

\* C21: comparing the lower-case hex string of the blob with the catalog's
\* hex prefix string is equivalent to comparing the hex-decoded prefix with
\* the raw bytes: in every scene encode the two comparisons agree on every
\* Type Entry of the resolved catalog entry, upper-case and odd-length
\* prefixes included, and so select the same Type Entry.
C21_PrefixComparisonEquivalence ==
    \A t \in AllThreads :
        LET loaded == MODEL_SPECIFIC_PARAMS.value
            scene == call[t].value
        IN  (/\ SceneDone(t)
             /\ find_params_for_sku(loaded, scene.sku).ok
             /\ base64_decode(scene.scence_param).ok) =>
                LET scence_bytes == base64_decode(scene.scence_param).bytes
                    tes == SceneEntry(loaded, scene).type_entries
                IN  /\ \A i \in 1..Len(tes) :
                          StringPrefixMatch(tes[i], scence_bytes)
                              <=> BytePrefixMatch(tes[i], scence_bytes)
                    /\ matched_type_entry(tes, bytes_to_hex_string(scence_bytes))
                          = BytePrefixTypeEntry(tes, scence_bytes)


\* The payload bytes the segmentation frames carry, in order: bytes 2..18
\* (0-based) of each frame.
Carried(segments) ==
    [j \in 1..(17 * Len(segments)) |-> segments[((j - 1) \div 17) + 1][((j - 1) % 17) + 3]]

\* C22: the segmentation frames carry the whole payload without loss,
\* duplication or reordering: bytes 2.. of the segmentation frames, in
\* order and without the zero padding of the last, are 0x01, the line count,
\* the prefix to add and the blob without the prefix to strip; every frame
\* but the last carries 17 of these bytes.
C22_PayloadCarried ==
    \A t \in AllThreads :
        (SceneDone(t) /\ result[t].ok) =>
            LET loaded == MODEL_SPECIFIC_PARAMS.value
                payload == ScenePayload(loaded, call[t].value)
                full == <<1, NumLines(Len(payload)) % 256>> \o payload
                segments == SegmentFrames(result[t].bytes,
                                          SceneEntry(loaded, call[t].value).on_command)
                carried == Carried(segments)
            IN  /\ 17 * (Len(segments) - 1) < Len(full)
                /\ Len(full) <= 17 * Len(segments)
                /\ SubSeq(carried, 1, Len(full)) = full
                /\ \A j \in (Len(full) + 1)..Len(carried) : carried[j] = 0


\* C23: in every scene encode output segmentation frame k (0-based) starts
\* with the catalog entry's continuation-marker byte and the line-index
\* byte, which is k for every frame but the last and 0xFF for the last, the
\* sole frame included; exactly one segmentation frame carries index 0xFF.
C23_LineHeaders ==
    \A t \in AllThreads :
        (SceneDone(t) /\ result[t].ok) =>
            LET entry == SceneEntry(MODEL_SPECIFIC_PARAMS.value, call[t].value)
                marker == u8_from_str_radix(entry.hex_multi_prefix).value
                segments == SegmentFrames(result[t].bytes, entry.on_command)
            IN  /\ \A k \in 1..Len(segments) :
                      /\ segments[k][1] = marker
                      /\ segments[k][2] = IF k = Len(segments) THEN 255 ELSE k - 1
                /\ Cardinality({k \in 1..Len(segments) : segments[k][2] = 255}) = 1


\* C24: the last frame of every successful scene encode is the framed
\* mode-selection line: 33 05 04, the scene code's low byte, its high byte,
\* then the selected Type Entry's hex-decoded command suffix; every frame
\* between the power-on frame, if any, and this one is a segmentation frame,
\* opening with the continuation marker.
C24_ModeLineLast ==
    \A t \in AllThreads :
        (SceneDone(t) /\ result[t].ok) =>
            LET loaded == MODEL_SPECIFIC_PARAMS.value
                entry == SceneEntry(loaded, call[t].value)
                suffix == hex_string_to_bytes(
                              SceneTypeEntry(loaded, call[t].value).normal_command_suffix).bytes
                code == call[t].value.code
                frames == Frames(result[t].bytes)
                segments == SegmentFrames(result[t].bytes, entry.on_command)
            IN  /\ Len(frames) >= 1
                /\ frames[Len(frames)]
                      = finish(<<51, 5, 4, code % 256, code \div 256>> \o suffix)
                /\ \A k \in 1..Len(segments) :
                      segments[k][1] = u8_from_str_radix(entry.hex_multi_prefix).value

\* C24 witness: a scene with code 2899 has been encoded into several
\* segmentation frames and a last frame 33 05 04 53 0b 00 47 0..0.
C24_Witness ==
    \E t \in AllThreads :
        /\ SceneDone(t) /\ result[t].ok
        /\ call[t].value.code = 2899
        /\ Len(Frames(result[t].bytes)) >= 3
        /\ SubSeq(Frames(result[t].bytes)[Len(Frames(result[t].bytes))], 1, 8)
              = <<51, 5, 4, 83, 11, 0, 71, 0>>
        /\ Frames(result[t].bytes)[Len(Frames(result[t].bytes)) - 1][2] = 255


\* A buffer, its final byte already dropped, fits a layout: it has a byte
\* for every element, every literal stands at its position, and every byte
\* after the last element is zero.
LayoutMatches(body, bytes) ==
    /\ Len(bytes) >= Len(body)
    /\ \A k \in 1..Len(body) : body[k].lit => bytes[k] = body[k].byte
    /\ \A j \in (Len(body) + 1)..Len(bytes) : bytes[j] = 0

\* A buffer without its final byte.
WithoutLast(buffer) ==
    IF Len(buffer) = 0 THEN <<>> ELSE SubSeq(buffer, 1, Len(buffer) - 1)

\* C25: a fixed-layout decoder that decode_for_sku has tried produced the
\* result if and only if the buffer without its final byte fits the layout;
\* a decoder rejecting the buffer, for nonzero padding as for a wrong
\* literal or a missing field, does not end the loop: the Generic fallback
\* is returned only when every codec of the SKU has been tried and no
\* layout fits.
C25_LayoutAcceptance ==
    \A t \in AllThreads :
        Done(t, {"decode_for_sku"}) =>
            LET bytes == WithoutLast(call[t].data)
                Fits(i) == /\ all_codecs[i].kind = "packet"
                           /\ LayoutMatches(all_codecs[i].body, bytes)
            IN  /\ \A i \in tried[t] :
                      Fits(i) <=> result[t].packet.variant = all_codecs[i].variant
                /\ result[t].packet.variant = "Generic" =>
                      /\ tried[t] = Range(codec_by_sku[call[t].sku])
                      /\ \A i \in tried[t] : ~Fits(i)
                /\ result[t].packet.variant # "Generic" =>
                      \E i \in tried[t] : Fits(i)

\* C25 witness: a SetHumidifierMode frame with byte 8 of the padding set
\* to 7 has been decoded for the H7160: its decoder was tried, the loop went
\* through all seven codecs and the result is the Generic packet.
C25_Witness ==
    \E t \in AllThreads :
        /\ Done(t, {"decode_for_sku"})
        /\ call[t].sku = "H7160"
        /\ Len(call[t].data) = FramePayloadLen + 1
        /\ SubSeq(call[t].data, 1, 4) = <<51, 5, 1, 32>>
        /\ call[t].data[9] = 7
        /\ tried[t] = 1..Len(all_codecs)
        /\ result[t] = Decoded(Generic(call[t].data))


\* The command types with a bool field "on"; in each layout it is the
\* third byte.
BoolTypes == {"SetDevicePower", "NotifyHumidifierNightlightParams",
              "SetHumidifierNightlightParams"}

\* C26: the boolean field codec encodes exactly 1 for true and 0 for false
\* and decodes 0 as false and every other byte as true; so re-encoding a
\* decoded field reproduces the byte read only when that byte was 0 or 1.
C26_BoolCodec ==
    \A t \in AllThreads :
        /\ (Done(t, {"encode_for_sku"}) /\ result[t].ok
                /\ call[t].value.type \in BoolTypes) =>
              result[t].bytes[3] = (IF call[t].value.on THEN 1 ELSE 0)
        /\ (Done(t, {"round_trip"}) /\ call[t].value.type \in BoolTypes
                /\ call[t].value.type \in TypesFor(call[t].sku)) =>
              result[t].packet.value.on = call[t].value.on
        /\ (Done(t, {"decode_for_sku"})
                /\ result[t].packet.value.type \in BoolTypes) =>
              /\ result[t].packet.value.on = (call[t].data[3] # 0)
              /\ (btoi(result[t].packet.value.on) = call[t].data[3])
                    <=> call[t].data[3] \in {0, 1}

\* C26 witness: a SetDevicePower frame whose field byte is 7 has been
\* decoded to on = true, which encodes as 1, not 7.
C26_Witness ==
    \E t \in AllThreads :
        /\ Done(t, {"decode_for_sku"})
        /\ result[t].packet.variant = "SetDevicePower"
        /\ call[t].data[3] = 7
        /\ result[t].packet.value.on
        /\ btoi(result[t].packet.value.on) = 1


\* C27: for every percentage p that from_percent accepts (any u8) the wire
\* byte is p + 128, computed without 8-bit overflow, and the percentage read
\* back from the low 7 bits is p: as_percent(from_percent(p)) = p.
C27_HumidityOffset ==
    /\ humidity.state # "panic"
    /\ humidity.state \in {"built", "read"} => humidity.inner = humidity.percent + 128
    /\ humidity.state = "read" => humidity.read = humidity.percent


\* The registered codecs whose decoder accepts a buffer, whatever the SKU.
AcceptingAny(buffer) ==
    {i \in 1..Len(all_codecs) : codec_decode(all_codecs[i], buffer).ok}

\* C28: for every buffer at most one registered codec's decoder succeeds,
\* any two fixed layouts having different literals at some common position,
\* so the result of decode_for_sku depends on the SKU and the buffer only,
\* not on the order in which the loop visits the SKU's codecs: it is the
\* packet of the one accepting codec of the SKU, or Generic if there is none.
C28_OrderIndependence ==
    \A t \in AllThreads :
        Done(t, {"decode_for_sku"}) =>
            LET accepting == Accepting(call[t].sku, call[t].data)
            IN  /\ Cardinality(AcceptingAny(call[t].data)) <= 1
                /\ \A i, j \in 1..Len(MGR.all_codecs) :
                      (/\ i # j
                       /\ MGR.all_codecs[i].kind = "packet"
                       /\ MGR.all_codecs[j].kind = "packet") =>
                          \E k \in 1..Min2(Len(MGR.all_codecs[i].body),
                                            Len(MGR.all_codecs[j].body)) :
                              /\ MGR.all_codecs[i].body[k].lit
                              /\ MGR.all_codecs[j].body[k].lit
                              /\ MGR.all_codecs[i].body[k].byte
                                    # MGR.all_codecs[j].body[k].byte
                /\ accepting = {} => result[t] = Decoded(Generic(call[t].data))
                /\ \A i \in accepting :
                      result[t] = Decoded(codec_decode(all_codecs[i], call[t].data).packet)

\* C28 witness: a SetHumidifierNightlight frame has been decoded for the
\* H7160 by a loop that visited its decoder last, after the six others had
\* rejected the buffer.
C28_Witness ==
    \E t \in AllThreads :
        /\ Done(t, {"decode_for_sku"})
        /\ call[t].sku = "H7160"
        /\ result[t].packet.variant = "SetHumidifierNightlight"
        /\ tried[t] = 1..Len(all_codecs)


\* The lines of a scene encode that got as far as framing them.
SceneLines(loaded, scene) ==
    all_command_lines_data(SceneEntry(loaded, scene), SceneTypeEntry(loaded, scene),
                           base64_decode(scene.scence_param).bytes, scene.code)

\* C29: every line the scene encoder hands to the framer has at most 19
\* bytes, for every catalog entry and blob, so the frame of each line
\* carries all of the line's bytes: framing never truncates a scene line.
C29_LinesFit ==
    \A t \in AllThreads :
        (SceneDone(t) /\ result[t].ok) =>
            LET loaded == MODEL_SPECIFIC_PARAMS.value
                lines == SceneLines(loaded, call[t].value)
                frames == Frames(result[t].bytes)
                first == IF SceneEntry(loaded, call[t].value).on_command THEN 1 ELSE 0
            IN  /\ Len(frames) = first + Len(lines)
                /\ \A k \in 1..Len(lines) :
                      /\ Len(lines[k]) <= FramePayloadLen
                      /\ \A j \in 1..Len(lines[k]) :
                            j <= FramePayloadLen /\ frames[first + k][j] = lines[k][j]


\* A step of caller t that touches MGR, MODEL_SPECIFIC_PARAMS or the
\* codec_by_sku mutex.
SharedStep(t) ==
    \/ DerefMGR(t) \/ StartFetch(t) \/ FinishFetch(t) \/ PacketManagerNew(t)
    \/ MapForSku(t) \/ Resolve(t) \/ DecodeTry(t) \/ DecodeFallback(t)

\* Caller t is about to run code that needs nothing but its own data: the
\* framer, an encoder, or the scene encoder once the catalog cell is set.
LocalStep(t) ==
    \/ pc[t] \in {"with_bytes", "encode"}
    \/ pc[t] = "scene" /\ LazyReady(MODEL_SPECIFIC_PARAMS)

\* Caller t is inside a call.
InCall(t) == pc[t] \notin {"idle", "done"}

\* Caller t waits: for PacketManager::new run by another caller, for the
\* catalog fetch run by another caller, or for the codec_by_sku mutex.
WaitsForMGR(t) == pc[t] = "mgr" /\ MGR.state = "running"
WaitsForFetch(t) ==
    /\ pc[t] \in {"new", "scene"}
    /\ ~LazyReady(MODEL_SPECIFIC_PARAMS)
    /\ ~LazyNeedsInit(MODEL_SPECIFIC_PARAMS)
WaitsForLock(t) == pc[t] = "lock" /\ lock # 0
Blocked(t) == WaitsForMGR(t) \/ WaitsForFetch(t) \/ WaitsForLock(t)

\* The callers a blocked caller waits for.
WaitsOn(t) ==
    IF WaitsForMGR(t) THEN {u \in AllThreads : pc[u] \in {"new", "fetch_new"}}
    ELSE IF WaitsForFetch(t) THEN {u \in AllThreads : pc[u] \in {"fetch_new", "fetch_scene"}}
    ELSE IF WaitsForLock(t) THEN {lock}
    ELSE {}

RECURSIVE CanRun(_, _)
\* Caller t can take a step, or waits for callers that can within n hops.
CanRun(t, n) ==
    \/ ~Blocked(t)
    \/ /\ n > 0
       /\ WaitsOn(t) # {}
       /\ \A u \in WaitsOn(t) : u # t /\ CanRun(u, n - 1)

\* C30: no interleaving of concurrent callers deadlocks: a caller inside a
\* call that does not wait has a step to take, a waiting caller waits for a
\* chain of callers that ends in one that does not wait, and the caller
\* holding the cache lock is looking up or iterating the map, never waiting
\* for the catalog fetch or for the registry's construction.
C30_NoDeadlock ==
    \A t \in AllThreads :
        /\ (InCall(t) /\ ~Blocked(t)) => (LocalStep(t) \/ ENABLED SharedStep(t))
        /\ InCall(t) => CanRun(t, NumThreads)
        /\ lock = t => (pc[t] \in {"resolve", "decode"} /\ ~Blocked(t))

\* C30 witness: one caller waits for the catalog inside PacketManager::new
\* while the fetch is run by a caller encoding a scene directly; nobody
\* holds the cache lock.
C30_Witness ==
    \E t, u \in AllThreads :
        /\ pc[t] = "new" /\ WaitsForFetch(t)
        /\ pc[u] = "fetch_scene"
        /\ lock = 0


(***************************************************************************)
(* service/state.rs: resolve_device_for_control, the semaphore of a        *)
(* device, the Coordinator handed to the caller and the task spawned to    *)
(* poll once the control is over.                                          *)
(***************************************************************************)
\* str::to_ascii_lowercase.
to_ascii_lowercase(s) ==
    [i \in 1..Len(s) |-> IF s[i] \in 65..90 THEN s[i] + 32 ELSE s[i]]

\* State::resolve_device: the devices the lookup can return for a label
\* (<<>>: None).  An id is found by the map lookup; otherwise the first
\* device, in the map's iteration order, whose name or id equals the label
\* ignoring ASCII case.  Device "d1" is named "L", device "d2" is named "f".
resolve_device(label) ==
    IF label \in DeviceIds
    THEN {label}
    ELSE LET name(id) == IF id = <<100, 49>> THEN <<76>> ELSE <<102>>
             eq_ignore_ascii_case(a) == to_ascii_lowercase(a) = to_ascii_lowercase(label)
             found == {id \in DeviceIds : eq_ignore_ascii_case(name(id)) \/ eq_ignore_ascii_case(id)}
         IN IF found = {} THEN {<<>>} ELSE found

\* HashMap::insert in place of entry().or_insert_with(): a new semaphore on every call.
semaphore_for_device_insert(by_id, sems, id) ==
    [by_id |-> [by_id EXCEPT ![id] = Len(sems) + 1],
     sems |-> Append(sems, 1),
     semaphore |-> Len(sems) + 1]

\* State::semaphore_for_device: the entry of the device id, created with one
\* permit when absent; the handle returned is a clone of the Arc in the map.
semaphore_for_device(by_id, sems, id) ==
    IF by_id[id] # 0
    THEN [by_id |-> by_id, sems |-> sems, semaphore |-> by_id[id]]
    ELSE [by_id |-> [by_id EXCEPT ![id] = Len(sems) + 1],
          sems |-> Append(sems, 1),
          semaphore |-> Len(sems) + 1]

\* resolve_device_for_control is called with a label ("d1", "D1", "l", "d2",
\* "x"): resolve_device runs; no device ends the call with an error.
ResolveDeviceForControl(t) ==
    /\ workload = "control"
    /\ control[t].pc = "idle"
    /\ calls_left > 0
    /\ calls_left' = calls_left - 1
    /\ \E label \in {<<100, 49>>, <<68, 49>>, <<108>>, <<100, 50>>, <<120>>} :
          \E d \in resolve_device(label) :
              control' = [control EXCEPT
                             ![t] = [pc |-> IF d = <<>> THEN "idle" ELSE "semaphore",
                                     device |-> d, semaphore |-> 0]]
    /\ UNCHANGED <<workload, reg, humidity, shared, local, semaphore_by_id, semaphores,
                   coordinators, devices_by_id, svc, clock, scene_list>>

\* The caller takes the semaphore of the device it resolved.
SemaphoreForDevice(t) ==
    /\ control[t].pc = "semaphore"
    /\ LET r == semaphore_for_device(semaphore_by_id, semaphores, control[t].device) IN
          /\ semaphore_by_id' = r.by_id
          /\ semaphores' = r.sems
          /\ control' = [control EXCEPT ![t].pc = "acquire", ![t].semaphore = r.semaphore]
    /\ UNCHANGED <<workload, reg, humidity, calls_left, shared, local,
                   coordinators, devices_by_id, svc, clock, scene_list>>

\* acquire_owned() returns once a permit is available (the semaphore is never
\* closed); the oneshot channel is created, the polling task is spawned and
\* the Coordinator, owning the permit and the sender, is returned.
AcquireOwned(t) ==
    /\ control[t].pc = "acquire"
    /\ semaphores[control[t].semaphore] > 0
    /\ semaphores' = [semaphores EXCEPT ![control[t].semaphore] = @ - 1]
    /\ coordinators' = Append(coordinators,
                              [id |-> control[t].device, semaphore |-> control[t].semaphore,
                               permit |-> TRUE, tx |-> "open", task |-> "waiting", polls |-> 0])
    /\ control' = [control EXCEPT ![t] = [pc |-> "idle", device |-> <<>>, semaphore |-> 0]]
    /\ UNCHANGED <<workload, reg, humidity, calls_left, shared, local, semaphore_by_id,
                   devices_by_id, svc, clock, scene_list>>

\* The owner of a Coordinator ends the control: the sender fires or is
\* dropped, and the permit is dropped, in either order.
CoordinatorStep(c) ==
    /\ c \in DOMAIN coordinators
    /\ \/ /\ coordinators[c].tx = "open"
          /\ \E how \in {"sent", "dropped"} :
                coordinators' = [coordinators EXCEPT ![c].tx = how]
          /\ UNCHANGED semaphores
       \/ /\ coordinators[c].permit
          /\ coordinators' = [coordinators EXCEPT ![c].permit = FALSE]
          /\ semaphores' = [semaphores EXCEPT ![coordinators[c].semaphore] = @ + 1]
    /\ UNCHANGED <<workload, reg, humidity, calls_left, shared, local, semaphore_by_id,
                   control, devices_by_id, svc, clock, scene_list>>

\* The spawned task does not await the receiver.
PollAfterControl_unawaited(c) ==
    /\ c \in DOMAIN coordinators
    /\ coordinators[c].task = "waiting"
    /\ coordinators' = [coordinators EXCEPT ![c].task = "polled", ![c].polls = @ + 1]
    /\ UNCHANGED <<workload, reg, humidity, calls_left, shared, local, semaphore_by_id,
                   semaphores, control, devices_by_id, svc, clock, scene_list>>

\* The spawned task: rx.await returns once the sender has fired or is gone,
\* then poll_after_control(device_id) runs: it returns at once for a device
\* pollable via IoT or LAN, and else sleeps and polls the Platform API.
PollAfterControl(c) ==
    /\ c \in DOMAIN coordinators
    /\ coordinators[c].task = "waiting"
    /\ coordinators[c].tx # "open"
    /\ \E how \in {"returned", "poll_platform_api"} :
          coordinators' = [coordinators EXCEPT ![c].task = how, ![c].polls = @ + 1]
    /\ UNCHANGED <<workload, reg, humidity, calls_left, shared, local, semaphore_by_id,
                   semaphores, control, devices_by_id, svc, clock, scene_list>>

(***************************************************************************)
(* service/state.rs: device_set_scene.  The call in progress is svc:       *)
(* [pc, fn, id, device, scene, sent, writes, queried, unstored, notified,  *)
(* deadline, result]; sent lists the transports tried with their outcome,  *)
(* writes counts the calls of set_active_scene.  The clients a call finds  *)
(* in State are read where the code reads them.                            *)
(***************************************************************************)
\* device_set_scene is called for a device and a scene name ("A" or "B"):
\* the Platform API is tried unless the device avoids it or the client or
\* the device's http_device_info is missing; success records the scene and
\* returns Ok, failure goes on to the LAN API.
DeviceSetScene ==
    /\ workload = "device"
    /\ svc.pc \in {"idle", "done"}
    /\ calls_left > 0
    /\ calls_left' = calls_left - 1
    /\ \E id \in DeviceIds, scene \in {<<65>>, <<66>>}, platform_client \in BOOLEAN, ok \in BOOLEAN,
          device \in [avoid_platform_api : BOOLEAN, http_device_info : BOOLEAN,
                      lan_device : BOOLEAN, undoc_device_info : BOOLEAN] :
          LET entered == [pc |-> "lan", fn |-> "device_set_scene", id |-> id, device |-> device,
                          scene |-> scene, sent |-> <<>>, writes |-> 0, queried |-> FALSE,
                          unstored |-> FALSE, notified |-> 0, deadline |-> 0, result |-> "pending"]
              usable == ~device.avoid_platform_api /\ platform_client /\ device.http_device_info
          IN  IF usable /\ ok
              THEN /\ devices_by_id' = [devices_by_id EXCEPT ![id].active_scene = scene]
                   /\ svc' = [entered EXCEPT !.pc = "done", !.result = "Ok", !.writes = 1,
                                             !.sent = <<[transport |-> "platform", ok |-> TRUE]>>]
              ELSE /\ UNCHANGED devices_by_id
                   /\ svc' = [entered EXCEPT
                                 !.sent = IF usable
                                          THEN <<[transport |-> "platform", ok |-> FALSE]>>
                                          ELSE <<>>]
    /\ UNCHANGED <<workload, reg, humidity, shared, local, semaphore_by_id, semaphores,
                   control, coordinators, clock, scene_list>>

\* A failure of the LAN API ends the call with the error.
SetSceneLan_returns_error ==
    /\ svc.pc = "lan"
    /\ svc.fn = "device_set_scene"
    /\ \E ok \in BOOLEAN :
          IF svc.device.lan_device
          THEN /\ devices_by_id' = IF ok THEN [devices_by_id EXCEPT ![svc.id].active_scene = svc.scene]
                                         ELSE devices_by_id
               /\ svc' = [svc EXCEPT !.pc = "done", !.result = IF ok THEN "Ok" ELSE "Err",
                                     !.writes = IF ok THEN @ + 1 ELSE @,
                                     !.sent = Append(@, [transport |-> "lan", ok |-> ok])]
          ELSE /\ UNCHANGED devices_by_id
               /\ svc' = [svc EXCEPT !.pc = "ble"]
    /\ UNCHANGED <<workload, reg, humidity, calls_left, shared, local, semaphore_by_id,
                   semaphores, control, coordinators, clock, scene_list>>

\* The LAN API is tried when the device has a lan_device: success records the
\* scene and returns Ok, failure goes on to BLE over IoT.
SetSceneLan ==
    /\ svc.pc = "lan"
    /\ svc.fn = "device_set_scene"
    /\ \E ok \in BOOLEAN :
          IF svc.device.lan_device /\ ok
          THEN /\ devices_by_id' = [devices_by_id EXCEPT ![svc.id].active_scene = svc.scene]
               /\ svc' = [svc EXCEPT !.pc = "done", !.result = "Ok", !.writes = @ + 1,
                                     !.sent = Append(@, [transport |-> "lan", ok |-> TRUE])]
          ELSE /\ UNCHANGED devices_by_id
               /\ svc' = [svc EXCEPT
                             !.pc = "ble",
                             !.sent = IF svc.device.lan_device
                                      THEN Append(@, [transport |-> "lan", ok |-> FALSE])
                                      ELSE @]
    /\ UNCHANGED <<workload, reg, humidity, calls_left, shared, local, semaphore_by_id,
                   semaphores, control, coordinators, clock, scene_list>>

\* The scene is recorded before the commands are sent.
SetSceneBle_records_first ==
    /\ svc.pc = "ble"
    /\ \E parsed \in {"err", "missing", "override", "api", "neither"},
          iot_client \in BOOLEAN, encoded \in BOOLEAN, ok \in BOOLEAN :
          LET sends == /\ parsed \in {"override", "api"}
                       /\ iot_client
                       /\ svc.device.undoc_device_info
                       /\ parsed = "api" => encoded
          IN  /\ devices_by_id' = IF sends
                                  THEN [devices_by_id EXCEPT ![svc.id].active_scene = svc.scene]
                                  ELSE devices_by_id
              /\ svc' = [svc EXCEPT
                            !.pc = "done",
                            !.result = IF sends /\ ok THEN "Ok" ELSE "Err",
                            !.writes = IF sends THEN @ + 1 ELSE @,
                            !.sent = IF sends THEN Append(@, [transport |-> "iot", ok |-> ok]) ELSE @]
    /\ UNCHANGED <<workload, reg, humidity, calls_left, shared, local, semaphore_by_id,
                   semaphores, control, coordinators, clock, scene_list>>

\* BLE over IoT: get_parsed_scenes_for_sku fails ("err"), or returns a list
\* in which the scene is missing, or has override commands, or an API
\* parameter that SetSceneCode::encode turns into frames or not, or neither.
\* The commands are sent when the scene is usable, the IoT client is set and
\* the device has undoc_device_info; success of iot.send_real records the
\* scene and returns Ok; everything else returns an error.
SetSceneBle ==
    /\ svc.pc = "ble"
    /\ \E parsed \in {"err", "missing", "override", "api", "neither"},
          iot_client \in BOOLEAN, encoded \in BOOLEAN, ok \in BOOLEAN :
          LET sends == /\ parsed \in {"override", "api"}
                       /\ iot_client
                       /\ svc.device.undoc_device_info
                       /\ parsed = "api" => encoded
          IN  /\ devices_by_id' = IF sends /\ ok
                                  THEN [devices_by_id EXCEPT ![svc.id].active_scene = svc.scene]
                                  ELSE devices_by_id
              /\ svc' = [svc EXCEPT
                            !.pc = "done",
                            !.result = IF sends /\ ok THEN "Ok" ELSE "Err",
                            !.writes = IF sends /\ ok THEN @ + 1 ELSE @,
                            !.sent = IF sends THEN Append(@, [transport |-> "iot", ok |-> ok]) ELSE @]
    /\ UNCHANGED <<workload, reg, humidity, calls_left, shared, local, semaphore_by_id,
                   semaphores, control, coordinators, clock, scene_list>>

(***************************************************************************)
(* service/state.rs: device_power_on and poll_lan_api.  The call in        *)
(* progress is svc: [pc, fn, id, on, available, sent, status, unstored,    *)
(* queried, notified, deadline, result]; available is the set of           *)
(* transports the call found usable, queried tells that query_status was   *)
(* called, notified counts the calls of notify_of_state_change.  The clock *)
(* is read relative to the start of the call.                              *)
(***************************************************************************)
\* A failed send goes on to the next usable transport.
DevicePowerOn_falls_through ==
    /\ workload = "power"
    /\ svc.pc \in {"idle", "done"}
    /\ calls_left > 0
    /\ calls_left' = calls_left - 1
    /\ \E id \in DeviceIds, on \in BOOLEAN, ok \in BOOLEAN,
          available \in SUBSET {"lan", "iot", "platform"} :
          LET order == <<"lan", "iot", "platform">>
              usable == {i \in 1..3 : order[i] \in available}
              first == CHOOSE i \in usable : \A j \in usable : i <= j
              rest == usable \ {first}
              entered == [pc |-> "done", fn |-> "device_power_on", id |-> id, on |-> on,
                          available |-> available, sent |-> <<>>, status |-> <<>>,
                          unstored |-> FALSE, queried |-> FALSE, notified |-> 0, deadline |-> 0,
                          result |-> "Err"]
          IN  svc' = IF usable = {} THEN entered
                     ELSE IF ok \/ rest = {}
                     THEN [entered EXCEPT !.sent = <<[transport |-> order[first], ok |-> ok]>>,
                                          !.result = IF ok THEN "Ok" ELSE "Err"]
                     ELSE [entered EXCEPT
                              !.sent = <<[transport |-> order[first], ok |-> FALSE],
                                         [transport |-> order[CHOOSE i \in rest : \A j \in rest : i <= j],
                                          ok |-> TRUE]>>,
                              !.result = "Ok"]
    /\ clock' = 0
    /\ UNCHANGED <<workload, reg, humidity, shared, local, semaphore_by_id, semaphores,
                   control, coordinators, devices_by_id, scene_list>>

\* device_power_on is called for a device: the LAN API is usable when the
\* device has a lan_device, IoT when the device supports it, the IoT client
\* is set and the device has undoc_device_info, the Platform API when its
\* client is set and the device has http_device_info.  The first usable one
\* sends; its error is returned; after a LAN send poll_lan_api runs; with
\* none usable the call bails.
DevicePowerOn ==
    /\ workload = "power"
    /\ svc.pc \in {"idle", "done"}
    /\ calls_left > 0
    /\ calls_left' = calls_left - 1
    /\ \E id \in DeviceIds, on \in BOOLEAN, ok \in BOOLEAN,
          available \in SUBSET {"lan", "iot", "platform"} :
          LET chosen == IF "lan" \in available THEN "lan"
                        ELSE IF "iot" \in available THEN "iot"
                        ELSE IF "platform" \in available THEN "platform"
                        ELSE "none"
              entered == [pc |-> "done", fn |-> "device_power_on", id |-> id, on |-> on,
                          available |-> available, sent |-> <<>>, status |-> <<>>,
                          unstored |-> FALSE, queried |-> FALSE, notified |-> 0, deadline |-> 0,
                          result |-> "Err"]
          IN  svc' = IF chosen = "none" THEN entered
                     ELSE [entered EXCEPT
                              !.sent = <<[transport |-> chosen, ok |-> ok]>>,
                              !.pc = IF chosen = "lan" /\ ok THEN "poll_lan_api" ELSE "done",
                              !.result = IF ~ok THEN "Err"
                                         ELSE IF chosen = "lan" THEN "pending" ELSE "Ok"]
    /\ clock' = 0
    /\ UNCHANGED <<workload, reg, humidity, shared, local, semaphore_by_id, semaphores,
                   control, coordinators, devices_by_id, scene_list>>

\* poll_lan_api begins: without a LAN client it bails; with one the deadline
\* is set five seconds ahead.
PollLanApi ==
    /\ svc.pc = "poll_lan_api"
    /\ \E lan_client \in BOOLEAN :
          svc' = IF lan_client
                 THEN [svc EXCEPT !.pc = "query", !.deadline = clock + DeadlineTicks]
                 ELSE [svc EXCEPT !.pc = "done", !.result = "Err"]
    /\ UNCHANGED <<workload, reg, humidity, calls_left, shared, local, semaphore_by_id,
                   semaphores, control, coordinators, devices_by_id, clock, scene_list>>

\* The head of the loop and the query: past the deadline the loop ends;
\* else query_status runs for some time and fails, which returns the error,
\* or yields a status.
QueryStatus ==
    /\ svc.pc = "query"
    /\ IF clock > svc.deadline
       THEN /\ svc' = [svc EXCEPT !.pc = "notify"]
            /\ UNCHANGED clock
       ELSE \E took \in {0, 1, DeadlineTicks}, ok \in BOOLEAN, on \in BOOLEAN :
               /\ clock' = clock + took
               /\ svc' = IF ok
                         THEN [svc EXCEPT !.pc = "store", !.status = <<on>>, !.unstored = TRUE,
                                          !.queried = TRUE]
                         ELSE [svc EXCEPT !.pc = "done", !.result = "Err", !.queried = TRUE]
    /\ UNCHANGED <<workload, reg, humidity, calls_left, shared, local, semaphore_by_id,
                   semaphores, control, coordinators, devices_by_id, scene_list>>

\* An accepted status does not end the loop.
StoreStatus_keeps_polling ==
    /\ svc.pc = "store"
    /\ devices_by_id' = [devices_by_id EXCEPT ![svc.id].lan_status = svc.status]
    /\ svc' = [svc EXCEPT !.pc = "query", !.unstored = FALSE]
    /\ clock' = clock + 1
    /\ UNCHANGED <<workload, reg, humidity, calls_left, shared, local, semaphore_by_id,
                   semaphores, control, coordinators, scene_list>>

\* The status is stored in the device; an accepted status (status.on == on)
\* ends the loop, any other is followed by the 100 ms sleep.
StoreStatus ==
    /\ svc.pc = "store"
    /\ devices_by_id' = [devices_by_id EXCEPT ![svc.id].lan_status = svc.status]
    /\ IF svc.status = <<svc.on>>
       THEN /\ svc' = [svc EXCEPT !.pc = "notify", !.unstored = FALSE]
            /\ UNCHANGED clock
       ELSE /\ svc' = [svc EXCEPT !.pc = "query", !.unstored = FALSE]
            /\ clock' = clock + 1
    /\ UNCHANGED <<workload, reg, humidity, calls_left, shared, local, semaphore_by_id,
                   semaphores, control, coordinators, scene_list>>

\* After the loop notify_of_state_change is called; its result is the call's.
NotifyOfStateChange ==
    /\ svc.pc = "notify"
    /\ \E ok \in BOOLEAN :
          svc' = [svc EXCEPT !.pc = "done", !.notified = @ + 1,
                             !.result = IF ok THEN "Ok" ELSE "Err"]
    /\ UNCHANGED <<workload, reg, humidity, calls_left, shared, local, semaphore_by_id,
                   semaphores, control, coordinators, devices_by_id, clock, scene_list>>

(***************************************************************************)
(* Scene names: sort_and_dedup_scenes (service/state.rs) and               *)
(* get_parsed_scenes_for_sku (govee_scenes.rs).                            *)
(***************************************************************************)
\* slice::sort_by / sort_by_key: the stable sort of items by their keys.  A
\* key is a tuple of strings, a number being the string of its one value;
\* tuples and strings compare lexicographically (Ord for str and for the
\* then_with chain).
sort_by(items, keys) ==
    LET str_less(a, b) ==
            \E i \in 1..Len(b) :
                /\ \A j \in 1..(i - 1) : j <= Len(a) /\ a[j] = b[j]
                /\ i > Len(a) \/ a[i] < b[i]
        key_less(k1, k2) ==
            \E c \in 1..Len(k1) :
                /\ \A d \in 1..(c - 1) : k1[d] = k2[d]
                /\ str_less(k1[c], k2[c])
        before(i) == {j \in 1..Len(items) :
                         \/ key_less(keys[j], keys[i])
                         \/ keys[j] = keys[i] /\ j < i}
    IN  [p \in 1..Len(items) |->
            items[CHOOSE i \in 1..Len(items) : Cardinality(before(i)) = p - 1]]

\* sort_and_dedup_scenes: sort_by_key on the ASCII-lowercased string, then
\* Vec::dedup, which removes an element equal to the one before it.
sort_and_dedup_scenes(scenes) ==
    LET sorted == sort_by(scenes, [i \in 1..Len(scenes) |-> <<to_ascii_lowercase(scenes[i])>>])
        kept == {i \in 1..Len(sorted) : i = 1 \/ sorted[i] # sorted[i - 1]}
    IN  [p \in 1..Cardinality(kept) |->
            sorted[CHOOSE i \in kept : Cardinality({j \in kept : j <= i}) = p]]

\* get_parsed_scenes_for_sku without an override file: api is the scenes of
\* the categories the API returned, in order, each [scene_name, scene_id,
\* light_effects], an effect being [scence_name, scene_code,
\* scence_param_id].  A scene with two or more named effects yields one entry
\* "scene-effect" per named effect, any other scene with an effect yields one
\* entry under its own name; the entries are sorted by name, scene id and
\* parameter id, every name occurring more than once gets " (n)" appended,
\* and the list is sorted by display name.
get_parsed_scenes_for_sku(api) ==
    LET RECURSIVE intermediate(_), decimal(_)
        parsed(scene, effect, name) ==
            [display_name |-> name,
             scene_code |-> effect.scene_code,
             source_api_scene_name |-> scene.scene_name,
             source_api_effect_name |-> effect.scence_name,
             source_api_scene_id |-> scene.scene_id,
             source_api_scence_param_id |-> effect.scence_param_id]
        of_scene(scene) ==
            LET effects == scene.light_effects
                eligible == {i \in DOMAIN effects : effects[i].scence_name # <<>>}
                nth(p) == CHOOSE i \in eligible : Cardinality({j \in eligible : j <= i}) = p
            IN  IF Cardinality(eligible) >= 2
                THEN [p \in 1..Cardinality(eligible) |->
                         parsed(scene, effects[nth(p)],
                                scene.scene_name \o <<45>> \o effects[nth(p)].scence_name)]
                ELSE IF effects # <<>>
                THEN <<parsed(scene, effects[1], scene.scene_name)>>
                ELSE <<>>
        intermediate(n) == IF n = 0 THEN <<>> ELSE intermediate(n - 1) \o of_scene(api[n])
        decimal(n) == IF n < 10 THEN <<48 + n>> ELSE decimal(n \div 10) \o <<48 + (n % 10)>>
        unsorted == intermediate(Len(api))
        sorted == sort_by(unsorted,
                          [i \in DOMAIN unsorted |->
                              <<unsorted[i].display_name,
                                <<unsorted[i].source_api_scene_id>>,
                                <<unsorted[i].source_api_scence_param_id>>>>])
        total_occurrences(i) ==
            Cardinality({j \in DOMAIN sorted : sorted[j].display_name = sorted[i].display_name})
        count(i) ==
            Cardinality({j \in 1..i : sorted[j].display_name = sorted[i].display_name})
        final == [i \in DOMAIN sorted |->
                     IF total_occurrences(i) > 1
                     THEN [sorted[i] EXCEPT
                              !.display_name = @ \o <<32, 40>> \o decimal(count(i)) \o <<41>>]
                     ELSE sorted[i]]
    IN  sort_by(final, [i \in DOMAIN final |-> <<final[i].display_name>>])

\* sort_and_dedup_scenes is applied to a list of the names "a", "A", "b".
SortAndDedupScenes ==
    /\ workload = "scenes"
    /\ scene_list.state = "none"
    /\ \E n \in 0..MaxScenes : \E input \in [1..n -> {<<97>>, <<65>>, <<98>>}] :
          scene_list' = [scene_list EXCEPT !.state = "sorted", !.input = input,
                                           !.output = sort_and_dedup_scenes(input)]
    /\ UNCHANGED <<workload, reg, humidity, calls_left, shared, local, semaphore_by_id,
                   semaphores, control, coordinators, devices_by_id, svc, clock>>

\* get_parsed_scenes_for_sku runs on what the API returned: scenes named "A"
\* or "A (1)", with ids 1 or 2, and no effect, one unnamed effect, or the two
\* effects "x" and "y".
GetParsedScenesForSku ==
    /\ workload = "scenes"
    /\ scene_list.state = "none"
    /\ \E n \in 0..MaxScenes :
          \E api \in [1..n -> [scene_name : {<<65>>, <<65, 32, 40, 49, 41>>},
                                 scene_id : {1, 2},
                                 light_effects :
                                     {<<>>,
                                      <<[scence_name |-> <<>>, scene_code |-> 7, scence_param_id |-> 1]>>,
                                      <<[scence_name |-> <<120>>, scene_code |-> 8, scence_param_id |-> 1],
                                        [scence_name |-> <<121>>, scene_code |-> 9, scence_param_id |-> 2]>>}]] :
              scene_list' = [scene_list EXCEPT !.state = "parsed", !.api = api,
                                               !.parsed = get_parsed_scenes_for_sku(api)]
    /\ UNCHANGED <<workload, reg, humidity, calls_left, shared, local, semaphore_by_id,
                   semaphores, control, coordinators, devices_by_id, svc, clock>>

(***************************************************************************)
(* The service as a whole: callers taking control of devices, setting      *)
(* scenes, switching power, or listing scene names.                        *)
(***************************************************************************)
InitService ==
    /\ workload \in {"control", "device", "power", "scenes"}
    /\ reg = NoReg
    /\ humidity = NoHumidity
    /\ calls_left = IF workload = "power" THEN MaxPolls ELSE MaxControls
    /\ InitState

NextService ==
    \/ \E t \in 1..NumCallers :
          \/ ResolveDeviceForControl(t)
          \/ SemaphoreForDevice(t)
          \/ AcquireOwned(t)
    \/ \E c \in 1..MaxControls :
          \/ CoordinatorStep(c)
          \/ PollAfterControl(c)
    \/ DeviceSetScene
    \/ SetSceneLan
    \/ SetSceneBle
    \/ DevicePowerOn
    \/ PollLanApi
    \/ QueryStatus
    \/ StoreStatus
    \/ NotifyOfStateChange
    \/ SortAndDedupScenes
    \/ GetParsedScenesForSku

SpecService == InitService /\ [][NextService]_vars

\* The runtime runs a spawned task whose receiver has resolved.
SpecServiceLive ==
    /\ SpecService
    /\ \A c \in 1..MaxControls : WF_vars(PollAfterControl(c))
    /\ WF_vars(PollLanApi \/ QueryStatus \/ StoreStatus \/ NotifyOfStateChange)


(***************************************************************************)
(* Claims about service/state.rs.                                          *)
(***************************************************************************)
\* A caller waits in acquire_owned for a permit of its semaphore.
WaitsForPermit(t) ==
    /\ control[t].pc = "acquire"
    /\ semaphores[control[t].semaphore] = 0

\* Coordinator c still owns the permit of device id.
HoldsPermit(c, id) ==
    /\ coordinators[c].id = id
    /\ coordinators[c].permit

\* C31: control is mutually exclusive per device.  All Coordinators of one
\* device id, and every caller about to acquire for it, use the one semaphore
\* that semaphore_by_id holds for the id; that semaphore never has more than
\* one permit, at most one Coordinator of the id owns a permit, and a caller
\* waits in acquire_owned exactly when a Coordinator of the same device id
\* still owns the permit: never because of a Coordinator of another id.
C31_MutualExclusion ==
    /\ \A i \in DOMAIN semaphores : semaphores[i] \in {0, 1}
    /\ \A c \in DOMAIN coordinators :
          coordinators[c].semaphore = semaphore_by_id[coordinators[c].id]
    /\ \A c1, c2 \in DOMAIN coordinators :
          (c1 # c2 /\ coordinators[c1].permit /\ coordinators[c2].permit)
              => coordinators[c1].id # coordinators[c2].id
    /\ \A t \in 1..NumCallers :
          control[t].pc = "acquire" =>
              /\ control[t].semaphore = semaphore_by_id[control[t].device]
              /\ WaitsForPermit(t) <=>
                    \E c \in DOMAIN coordinators : HoldsPermit(c, control[t].device)

\* A Coordinator owns the permit of a device while a second caller, which
\* resolved the same device id, waits in acquire_owned.
C31_Witness ==
    \E c \in DOMAIN coordinators : \E t \in 1..NumCallers :
        /\ WaitsForPermit(t)
        /\ HoldsPermit(c, control[t].device)
        /\ control[t].semaphore = coordinators[c].semaphore

\* The completion channel of Coordinator c has fired or was dropped.
Completed(c) ==
    /\ c \in DOMAIN coordinators
    /\ coordinators[c].tx # "open"

\* poll_after_control has started for Coordinator c.
PollStarted(c) ==
    /\ c \in DOMAIN coordinators
    /\ coordinators[c].task # "waiting"

\* C32: for every Coordinator returned, poll_after_control starts only after
\* the Coordinator's completion channel has fired or been dropped, never
\* while the control is in progress, and it starts exactly once: never
\* twice, and once the channel has fired or been dropped it does start.
C32_PollAfterCompletion ==
    /\ [](\A c \in DOMAIN coordinators :
            /\ coordinators[c].polls <= 1
            /\ PollStarted(c) => (Completed(c) /\ coordinators[c].polls = 1)
            /\ coordinators[c].tx = "open" => coordinators[c].polls = 0)
    /\ \A c \in 1..MaxControls : Completed(c) ~> PollStarted(c)

\* A poll has started for a Coordinator whose sender fired, while another
\* Coordinator's control is still in progress and its poll has not started.
C32_Witness ==
    \E c1, c2 \in DOMAIN coordinators :
        /\ coordinators[c1].tx = "sent"
        /\ coordinators[c1].polls = 1
        /\ coordinators[c2].tx = "open"
        /\ coordinators[c2].task = "waiting"


\* A device_set_scene call has been entered (it may have returned).
InSetScene ==
    /\ svc.pc # "idle"
    /\ svc.fn = "device_set_scene"

\* Place of a transport in device_set_scene's order.
SceneRank(transport) ==
    CASE transport = "platform" -> 1
      [] transport = "lan" -> 2
      [] transport = "iot" -> 3

\* C33: device_set_scene tries the Platform API, then LAN, then BLE over
\* IoT, each at most once and in that order; the Platform API only for a
\* device that does not avoid it and has http_device_info, LAN only for a
\* device with a lan_device, IoT only with undoc_device_info; nothing is tried
\* after a success, the call returns Ok exactly when its last attempt
\* succeeded and an error when none did; and the Platform and LAN stages end
\* the call only with Ok: after a failure the next stage runs.
C33_TransportOrder ==
    /\ [](InSetScene =>
            /\ \A i, j \in DOMAIN svc.sent :
                  i < j => /\ SceneRank(svc.sent[i].transport) < SceneRank(svc.sent[j].transport)
                           /\ ~svc.sent[i].ok
            /\ \A i \in DOMAIN svc.sent :
                  /\ svc.sent[i].transport = "platform" =>
                        (~svc.device.avoid_platform_api /\ svc.device.http_device_info)
                  /\ svc.sent[i].transport = "lan" => svc.device.lan_device
                  /\ svc.sent[i].transport = "iot" => svc.device.undoc_device_info
                  /\ svc.sent[i].ok => (svc.pc = "done" /\ svc.result = "Ok")
            /\ svc.pc = "lan" => \A i \in DOMAIN svc.sent : svc.sent[i].transport = "platform"
            /\ svc.pc = "ble" => \A i \in DOMAIN svc.sent : svc.sent[i].transport # "iot"
            /\ svc.pc = "ble" /\ svc.device.lan_device =>
                  \E i \in DOMAIN svc.sent : svc.sent[i].transport = "lan"
            /\ svc.pc = "done" =>
                  /\ svc.result \in {"Ok", "Err"}
                  /\ svc.result = "Ok" <=>
                        (svc.sent # <<>> /\ svc.sent[Len(svc.sent)].ok))
    /\ [][(InSetScene /\ svc.pc = "lan" /\ svc'.pc = "done") => svc'.result = "Ok"]_vars
    /\ [][(svc'.pc = "lan" /\ svc'.sent # <<>>) => ~svc'.sent[1].ok]_vars

\* A call returned Ok after the Platform API and LAN failed and IoT succeeded.
C33_Witness ==
    /\ InSetScene
    /\ svc.pc = "done"
    /\ svc.result = "Ok"
    /\ svc.sent = <<[transport |-> "platform", ok |-> FALSE],
                    [transport |-> "lan", ok |-> FALSE],
                    [transport |-> "iot", ok |-> TRUE]>>


\* C34: device_set_scene calls set_active_scene at most once per call, only
\* in the step in which a transport reported success, and with the scene
\* requested; a call that has not recorded a scene changes no device, so a
\* call returning an error leaves every active scene as it was.
C34_ActiveSceneOnSuccess ==
    /\ [](InSetScene =>
            /\ svc.writes \in {0, 1}
            /\ svc.writes = 1 <=> (svc.pc = "done" /\ svc.result = "Ok")
            /\ svc.writes = 1 =>
                  /\ svc.sent # <<>>
                  /\ svc.sent[Len(svc.sent)].ok
                  /\ devices_by_id[svc.id].active_scene = svc.scene)
    /\ [][(svc'.pc # "idle" /\ svc'.fn = "device_set_scene") =>
            IF svc'.writes = 0
            THEN devices_by_id' = devices_by_id
            ELSE \/ devices_by_id' = devices_by_id
                 \/ /\ svc' # svc
                    /\ devices_by_id' =
                          [devices_by_id EXCEPT ![svc'.id].active_scene = svc'.scene]]_vars

\* A call failed after every transport was tried, and the scene an earlier
\* call recorded for the device is still the active one.
C34_Witness ==
    /\ InSetScene
    /\ svc.pc = "done"
    /\ svc.result = "Err"
    /\ Len(svc.sent) = 3
    /\ devices_by_id[svc.id].active_scene # <<>>
    /\ devices_by_id[svc.id].active_scene # svc.scene


\* A device_power_on call has been entered (it may have returned).
InPowerOn ==
    /\ svc.pc # "idle"
    /\ svc.fn = "device_power_on"

\* C35: device_power_on sends on at most one transport per call: the first
\* usable one in the order LAN, IoT, Platform API.  When that send fails the
\* call has returned the error and nothing else was tried; when no transport
\* is usable the call has failed and nothing was sent.
C35_OneTransport ==
    InPowerOn =>
        /\ Len(svc.sent) <= 1
        /\ svc.sent = <<>> <=> svc.available = {}
        /\ svc.available = {} => (svc.pc = "done" /\ svc.result = "Err")
        /\ svc.sent # <<>> =>
              /\ svc.sent[1].transport \in svc.available
              /\ svc.sent[1].transport = "iot" => "lan" \notin svc.available
              /\ svc.sent[1].transport = "platform" => svc.available = {"platform"}
              /\ ~svc.sent[1].ok => (svc.pc = "done" /\ svc.result = "Err")
              /\ (svc.sent[1].ok /\ svc.sent[1].transport # "lan") =>
                    (svc.pc = "done" /\ svc.result = "Ok")

\* The LAN send failed while IoT and the Platform API were usable: the call
\* returned the error after that single attempt.
C35_Witness ==
    /\ InPowerOn
    /\ svc.available = {"lan", "iot", "platform"}
    /\ svc.sent = <<[transport |-> "lan", ok |-> FALSE]>>
    /\ svc.pc = "done"
    /\ svc.result = "Err"


\* C36: poll_lan_api terminates.  query_status is called only while the
\* deadline has not passed and no accepted status has been stored: past the
\* deadline, or once an accepted status is stored, the loop goes on to
\* notify_of_state_change.  Every status queried is stored in the device
\* before the next query.  notify_of_state_change is called at most once, and
\* exactly once when the loop has ended.  A failed query returns the error
\* without notifying; without a LAN client the call fails without querying.
C36_PollTerminates ==
    /\ (svc.pc = "poll_lan_api") ~> (svc.pc = "done")
    /\ [](InPowerOn =>
            /\ svc.notified \in {0, 1}
            /\ svc.unstored <=> svc.pc = "store"
            /\ svc.pc \in {"query", "store", "notify"} => svc.notified = 0
            /\ (svc.pc = "done" /\ svc.notified = 1) => svc.queried
            /\ (svc.pc = "done" /\ svc.result = "Ok" /\ svc.sent[1].transport = "lan") =>
                  (svc.notified = 1 /\ svc.queried)
            /\ svc.queried => devices_by_id[svc.id].lan_status # <<>> \/ svc.pc \in {"store", "done"})
    /\ [][(svc.pc = "query" /\ clock > svc.deadline) => svc'.pc = "notify"]_vars
    /\ [][(svc.pc = "query" /\ svc'.pc # "notify") => clock <= svc.deadline]_vars
    /\ [][(svc.pc = "query" /\ svc'.pc = "done") =>
            (svc'.result = "Err" /\ svc'.notified = 0)]_vars
    /\ [][svc.pc = "store" =>
            /\ devices_by_id'[svc.id].lan_status = svc.status
            /\ svc'.pc = IF svc.status = <<svc.on>> THEN "notify" ELSE "query"]_vars
    /\ [][svc.pc = "notify" => (svc'.pc = "done" /\ svc'.notified = 1)]_vars
    /\ [][(svc.pc = "poll_lan_api" /\ svc'.pc = "done") =>
            (svc'.result = "Err" /\ ~svc'.queried /\ svc'.notified = 0)]_vars

\* The loop ran until the deadline had passed without an accepted status,
\* every status was stored, and the state change was then notified once.
C36_Witness ==
    /\ InPowerOn
    /\ svc.pc = "done"
    /\ svc.result = "Ok"
    /\ svc.notified = 1
    /\ clock > svc.deadline
    /\ devices_by_id[svc.id].lan_status # <<svc.on>>
    /\ devices_by_id[svc.id].lan_status # <<>>


\* The strings of a list.
Elements(list) == {list[i] : i \in DOMAIN list}

\* C37: sort_and_dedup_scenes returns, for every input list, a list that
\* holds each distinct input string exactly once (no two positions hold equal
\* strings) and is ordered by the ASCII-lowercased strings.
C37_SortedAndDistinct ==
    scene_list.state = "sorted" =>
        /\ Elements(scene_list.output) = Elements(scene_list.input)
        /\ \A i, j \in DOMAIN scene_list.output :
              i # j => scene_list.output[i] # scene_list.output[j]
        /\ scene_list.output =
              sort_by(scene_list.output,
                      [i \in DOMAIN scene_list.output |->
                          <<to_ascii_lowercase(scene_list.output[i])>>])

\* C38: the list get_parsed_scenes_for_sku builds from the API has pairwise
\* distinct display names, whatever names the API returns, and is sorted
\* ascending by display name.
C38_DistinctDisplayNames ==
    scene_list.state = "parsed" =>
        /\ \A i, j \in DOMAIN scene_list.parsed :
              i # j => scene_list.parsed[i].display_name # scene_list.parsed[j].display_name
        /\ scene_list.parsed =
              sort_by(scene_list.parsed,
                      [i \in DOMAIN scene_list.parsed |->
                          <<scene_list.parsed[i].display_name>>])

=============================================================================
